---- MODULE Spec2Model ----
(***************************************************************************)
(* canvas-js-3d: the Scene container, the Camera projection and the        *)
(* Engine frame loop, as a state machine.                                  *)
(*                                                                         *)
(* Lengths are integers in units of the camera's near-plane epsilon        *)
(* (1e-4), so the epsilon itself is 1.  Times are integer milliseconds as  *)
(* read from performance.now(); a delta-time is kept in milliseconds (the  *)
(* code divides it by 1000).  A face depth, a mean of integers, is kept as *)
(* the exact fraction depthSum / vertex count.                             *)
(***************************************************************************)
EXTENDS Integers, Sequences, FiniteSets, TLC

\* ------------------------------------------------------------------ bounds

\* successful addSceneObject calls explored on one Scene
MaxId == 3
\* performance.now() readings are 0..MaxTime
MaxTime == 2
\* requestAnimationFrame callbacks that may be pending at once
MaxPending == 2
\* lines of an OBJ text made of whole lines
MaxLines == 2
\* characters of an OBJ text of any shape
MaxLen == 4

\* the largest angle, in absolute value, a rotation component reaches
MaxAngle == 2

\* ------------------------------------------------------------------ values

\* JavaScript's undefined (Map.get of a missing key)
Undefined == "undefined"

\* JavaScript's null
Null == "null"

\* the SceneObject instances of the application
Objects == {"a", "b", "c"}

\* a Map with no entries
EmptyMap == [k \in {} |-> Undefined]

\* reading property key of an object: undefined when it has none
Get(obj, key) == IF key \in DOMAIN obj THEN obj[key] ELSE Undefined

\* a value that is neither null nor undefined (the colours here are never
\* empty strings)
Truthy(x) == x \notin {Null, Undefined}

\* Map.prototype.has
MapHas(m, k) == k \in DOMAIN m

\* Map.prototype.get
MapGet(m, k) == IF k \in DOMAIN m THEN m[k] ELSE Undefined

\* Map.prototype.set
MapSet(m, k, v) == [x \in DOMAIN m \cup {k} |-> IF x = k THEN v ELSE m[x]]

\* Map.prototype.delete
MapDelete(m, k) == [x \in DOMAIN m \ {k} |-> m[x]]

\* Array.prototype.indexOf, 0-based, -1 when absent
IndexOf(arr, x) ==
    IF \E i \in 1..Len(arr) : arr[i] = x
    THEN (CHOOSE i \in 1..Len(arr) : arr[i] = x /\ \A j \in 1..(i - 1) : arr[j] # x) - 1
    ELSE -1

\* Array.prototype.splice(idx, 1), idx 0-based
Splice1(arr, idx) == [i \in 1..(Len(arr) - 1) |-> IF i <= idx THEN arr[i] ELSE arr[i + 1]]

\* ------------------------------------------------------------------ Scene

\* new Scene()
SceneNew == [sceneObjects |-> <<>>, nextId |-> 1,
             idToObject |-> EmptyMap, objectToId |-> EmptyMap]

\* mutant of addSceneObject: the id counter is advanced before the duplicate check
addSceneObject_CountsFirst(sc, sceneObject) ==
    IF MapHas(sc.objectToId, sceneObject)
    THEN [scene |-> [sc EXCEPT !.nextId = @ + 1], threw |-> TRUE, ret |-> Undefined]
    ELSE [scene |-> [sceneObjects |-> Append(sc.sceneObjects, sceneObject),
                     nextId |-> sc.nextId + 1,
                     idToObject |-> MapSet(sc.idToObject, sc.nextId, sceneObject),
                     objectToId |-> MapSet(sc.objectToId, sceneObject, sc.nextId)],
          threw |-> FALSE, ret |-> sc.nextId]

\* mutant of addSceneObject: the smallest id not in use is handed out
addSceneObject_ReusesIds(sc, sceneObject) ==
    IF MapHas(sc.objectToId, sceneObject)
    THEN [scene |-> sc, threw |-> TRUE, ret |-> Undefined]
    ELSE LET id == CHOOSE i \in 1..sc.nextId :
                       /\ i \notin DOMAIN sc.idToObject
                       /\ \A j \in 1..(i - 1) : j \in DOMAIN sc.idToObject
         IN [scene |-> [sceneObjects |-> Append(sc.sceneObjects, sceneObject),
                        nextId |-> sc.nextId + 1,
                        idToObject |-> MapSet(sc.idToObject, id, sceneObject),
                        objectToId |-> MapSet(sc.objectToId, sceneObject, id)],
             threw |-> FALSE, ret |-> id]

\* Scene.addSceneObject: the scene after the call, whether it threw, and the
\* id it returned
addSceneObject(sc, sceneObject) ==
    IF MapHas(sc.objectToId, sceneObject)
    THEN [scene |-> sc, threw |-> TRUE, ret |-> Undefined]
    ELSE LET id == sc.nextId
         IN [scene |-> [sceneObjects |-> Append(sc.sceneObjects, sceneObject),
                        nextId |-> sc.nextId + 1,
                        idToObject |-> MapSet(sc.idToObject, id, sceneObject),
                        objectToId |-> MapSet(sc.objectToId, sceneObject, id)],
             threw |-> FALSE, ret |-> id]

\* mutant of removeSceneObject: the object leaves the list but its mappings stay
removeSceneObject_KeepsMaps(sc, sceneObject) ==
    LET idx == IndexOf(sc.sceneObjects, sceneObject)
    IN IF idx # -1
       THEN [sc EXCEPT !.sceneObjects = Splice1(sc.sceneObjects, idx)]
       ELSE sc

\* mutant of removeSceneObject: an absent object (indexOf -1) splices the last
\* element, as Array.prototype.splice(-1, 1) does
removeSceneObject_NoGuard(sc, sceneObject) ==
    LET idx == IndexOf(sc.sceneObjects, sceneObject)
        at == IF idx = -1 THEN Len(sc.sceneObjects) - 1 ELSE idx
        has == MapHas(sc.objectToId, sceneObject)
        id == MapGet(sc.objectToId, sceneObject)
    IN IF Len(sc.sceneObjects) = 0
       THEN sc
       ELSE [sc EXCEPT !.sceneObjects = Splice1(sc.sceneObjects, at),
                       !.idToObject = IF has THEN MapDelete(@, id) ELSE @,
                       !.objectToId = IF has THEN MapDelete(@, sceneObject) ELSE @]

\* mutant of removeSceneObject: the removed slot is filled with the last
\* element (swap-remove) instead of closing the gap
removeSceneObject_SwapRemove(sc, sceneObject) ==
    LET idx == IndexOf(sc.sceneObjects, sceneObject)
        n == Len(sc.sceneObjects)
        has == MapHas(sc.objectToId, sceneObject)
        id == MapGet(sc.objectToId, sceneObject)
    IN IF idx # -1
       THEN [sc EXCEPT !.sceneObjects =
                           [i \in 1..(n - 1) |-> IF i = idx + 1 THEN sc.sceneObjects[n]
                                                 ELSE sc.sceneObjects[i]],
                       !.idToObject = IF has THEN MapDelete(@, id) ELSE @,
                       !.objectToId = IF has THEN MapDelete(@, sceneObject) ELSE @]
       ELSE sc

\* Scene.removeSceneObject: the scene after the call (it never throws)
removeSceneObject(sc, sceneObject) ==
    LET idx == IndexOf(sc.sceneObjects, sceneObject)
        has == MapHas(sc.objectToId, sceneObject)
        id == MapGet(sc.objectToId, sceneObject)
    IN IF idx # -1
       THEN [sc EXCEPT !.sceneObjects = Splice1(sc.sceneObjects, idx),
                       !.idToObject = IF has THEN MapDelete(@, id) ELSE @,
                       !.objectToId = IF has THEN MapDelete(@, sceneObject) ELSE @]
       ELSE sc

\* Scene.getSceneObjectById
getSceneObjectById(sc, id) == MapGet(sc.idToObject, id)

\* Scene.sceneObjects (getter): a copy of the list
sceneObjects(sc) == [i \in 1..Len(sc.sceneObjects) |-> sc.sceneObjects[i]]

\* ------------------------------------------------------------------ Vector3

\* Vector3.getTranslated
getTranslated(v, dir) == <<v[1] + dir[1], v[2] + dir[2], v[3] + dir[3]>>

\* Vector3.getScaled
getScaled(v, scalar) == <<v[1] * scalar, v[2] * scalar, v[3] * scalar>>

\* Vector3.getDifference (this - other)
getDifference(v, other) == <<v[1] - other[1], v[2] - other[2], v[3] - other[3]>>

\* Vector3.getCross
getCross(v, other) == <<v[2] * other[3] - v[3] * other[2],
                        v[3] * other[1] - v[1] * other[3],
                        v[1] * other[2] - v[2] * other[1]>>

\* Vector3.getDot
getDot(v, other) == v[1] * other[1] + v[2] * other[2] + v[3] * other[3]

\* ------------------------------------------------------------------ the application's objects

\* Mesh of each SceneObject: vertices, and faces as lists of 0-based vertex
\* indices.  Between them the faces have depths that interleave across the
\* objects, two faces of equal depth (b's first, c's second), faces of both
\* windings, and faces with a vertex on or behind the near plane.
Mesh(o) ==
    CASE o = "a" ->
           [vertices |-> << <<0, 0, 6>>, <<2, 0, 6>>, <<0, 2, 6>>,
                            <<0, 0, 2>>, <<2, 0, 2>>, <<0, 2, 2>> >>,
            faceIndices |-> << <<0, 2, 1>>, <<3, 4, 5>> >>]
      [] o = "b" ->
           [vertices |-> << <<0, 0, 4>>, <<2, 0, 4>>, <<0, 2, 4>>, <<0, 0, 1>> >>,
            faceIndices |-> << <<0, 2, 1>>, <<0, 1, 3>>, <<3, 2, 1>> >>]
      [] o = "c" ->
           [vertices |-> << <<0, 0, 1>>, <<2, 0, 2>>, <<0, 2, 4>>,
                            <<0, 0, 3>>, <<2, 0, 3>>, <<2, 2, 3>>, <<0, 2, 3>> >>,
            faceIndices |-> << <<0, 1, 2>>, <<3, 6, 5, 4>> >>]

\* Transform.position of each SceneObject (rotation is zero, scale is one)
Position(o) == IF o = "c" THEN <<0, 0, 1>> ELSE <<0, 0, 0>>

\* Material of each SceneObject: edge, gradient and face colour
Material(o) ==
    CASE o = "a" -> [edgeColor |-> "#ffffff", edgeGradientColor |-> Null, faceColor |-> "#333333"]
      [] o = "b" -> [edgeColor |-> Null, edgeGradientColor |-> "#0000ff", faceColor |-> Null]
      [] o = "c" -> [edgeColor |-> "#ff0000", edgeGradientColor |-> Null, faceColor |-> Null]

\* SceneObject.getSceneVertices / getTransformedVertices: scale, rotate X, Y,
\* Z, translate.  Scale one and rotation zero leave a vertex as it is.
getTransformedVertices(o) ==
    [i \in 1..Len(Mesh(o).vertices) |-> getTranslated(Mesh(o).vertices[i], Position(o))]

\* ------------------------------------------------------------------ Camera

\* const near = 1e-4, in units of 1e-4
near == 1

\* the positions camera.transform.setPosition is called with
CameraPositions == {<<0, 0, 0>>, <<0, 0, 1>>}

\* new Camera(screenSize): identity pose, culling off
CameraNew == [position |-> <<0, 0, 0>>, isBackFaceCulling |-> FALSE]

\* Camera._worldToCameraSpace: translate by the negated camera position, then
\* rotate by the negated camera rotation, which is zero here
_worldToCameraSpace(cam, worldPos) == getTranslated(worldPos, getScaled(cam.position, -1))

\* mutant of _isBackFacing: the dot product is taken with the normal of the
\* other winding
_isBackFacing_OtherNormal(cam, faceVertices) ==
    LET v0 == _worldToCameraSpace(cam, faceVertices[1])
        v1 == _worldToCameraSpace(cam, faceVertices[2])
        v2 == _worldToCameraSpace(cam, faceVertices[3])
        edge1 == getDifference(v1, v0)
        edge2 == getDifference(v2, v0)
        normal == getCross(edge2, edge1)
    IN getDot(normal, v0) > 0

\* Camera._isBackFacing
_isBackFacing(cam, faceVertices) ==
    LET v0 == _worldToCameraSpace(cam, faceVertices[1])
        v1 == _worldToCameraSpace(cam, faceVertices[2])
        v2 == _worldToCameraSpace(cam, faceVertices[3])
        edge1 == getDifference(v1, v0)
        edge2 == getDifference(v2, v0)
        normal == getCross(edge1, edge2)
    IN getDot(normal, v0) > 0

\* the null that _getNormalizedScreenPosition returns
NullPos == [isNull |-> TRUE, of |-> <<0, 0, 0>>]

\* mutant of _getNormalizedScreenPosition: a vertex exactly on the near plane passes
_getNormalizedScreenPosition_Strict(scenePos) ==
    IF scenePos[3] < near THEN NullPos ELSE [isNull |-> FALSE, of |-> scenePos]

\* Camera._getNormalizedScreenPosition: null at or behind the near plane.  The
\* quotient (x/z * focalLength / aspectRatio, y/z * focalLength) is not
\* evaluated: the position is kept as the camera-space point it is the image of.
_getNormalizedScreenPosition(scenePos) ==
    IF scenePos[3] <= near THEN NullPos ELSE [isNull |-> FALSE, of |-> scenePos]

\* Camera._getScaledScreenPosition: pixel position of a normalized position,
\* again kept as the point it is the image of
_getScaledScreenPosition(normScreenPos) == [screenOf |-> normScreenPos.of]

\* mutant of projectVertices: a vertex behind the near plane is skipped and the
\* rest of the face is still projected
RECURSIVE projectVertices_SkipsVertex(_, _, _, _)
projectVertices_SkipsVertex(cam, faceVertices, i, acc) ==
    IF i > Len(faceVertices) THEN acc
    ELSE LET cameraSpacePos == _worldToCameraSpace(cam, faceVertices[i])
             normScreenPos == _getNormalizedScreenPosition(cameraSpacePos)
             summed == [acc EXCEPT !.depthSum = @ + cameraSpacePos[3]]
         IN IF normScreenPos.isNull
            THEN projectVertices_SkipsVertex(cam, faceVertices, i + 1, summed)
            ELSE projectVertices_SkipsVertex(cam, faceVertices, i + 1,
                     [summed EXCEPT !.screenPositions =
                                        Append(@, _getScaledScreenPosition(normScreenPos))])

\* Camera.projectSceneObject, the loop over one face's vertices from vertex i
\* on: depthSum, the screen positions pushed, and isValid
RECURSIVE projectVertices(_, _, _, _)
projectVertices(cam, faceVertices, i, acc) ==
    IF i > Len(faceVertices) THEN acc
    ELSE LET cameraSpacePos == _worldToCameraSpace(cam, faceVertices[i])
             normScreenPos == _getNormalizedScreenPosition(cameraSpacePos)
             summed == [acc EXCEPT !.depthSum = @ + cameraSpacePos[3]]
         IN IF normScreenPos.isNull
            THEN [summed EXCEPT !.isValid = FALSE]
            ELSE projectVertices(cam, faceVertices, i + 1,
                     [summed EXCEPT !.screenPositions =
                                        Append(@, _getScaledScreenPosition(normScreenPos))])

\* new ProjectedFace(screenPositions, depth, color, gradientColor, faceColor)
\* as Camera.projectSceneObject calls it.  The constructor has four
\* parameters and stores those four: the fifth argument is dropped.  obj and
\* face record which face of which object it was projected from.
ProjectedFace(screenPositions, depth, color, gradientColor, faceColor, o, k) ==
    [screenPositions |-> screenPositions, depth |-> depth, color |-> color,
     gradientColor |-> gradientColor, obj |-> o, face |-> k]

\* Camera.projectSceneObject, the body of the loop for face k (1-based) of
\* object o: the ProjectedFace pushed, as a list of zero or one element
projectFace(cam, o, k) ==
    LET sceneVertices == getTransformedVertices(o)
        face == Mesh(o).faceIndices[k]
        faceVertices == [i \in 1..Len(face) |-> sceneVertices[face[i] + 1]]
        r == projectVertices(cam, faceVertices, 1,
                             [depthSum |-> 0, screenPositions |-> <<>>, isValid |-> TRUE])
        averageDepth == [num |-> r.depthSum, den |-> Len(faceVertices)]
    IN IF cam.isBackFaceCulling /\ Len(faceVertices) >= 3 /\ _isBackFacing(cam, faceVertices)
       THEN <<>>
       ELSE IF ~r.isValid
       THEN <<>>
       ELSE << ProjectedFace(r.screenPositions, averageDepth, Material(o).edgeColor,
                             Material(o).edgeGradientColor, Material(o).faceColor, o, k) >>

\* Camera.projectSceneObject: the faces of o that survive, in mesh order
RECURSIVE projectFacesFrom(_, _, _)
projectFacesFrom(cam, o, k) ==
    IF k > Len(Mesh(o).faceIndices) THEN <<>>
    ELSE projectFace(cam, o, k) \o projectFacesFrom(cam, o, k + 1)

\* Camera.projectSceneObject
projectSceneObject(cam, o) == projectFacesFrom(cam, o, 1)

\* ------------------------------------------------------------------ ProjectedFace

\* mutant of compareByDepth: nearer faces first
compareByDepth_Ascending(a, b) == a.depth.num * b.depth.den - b.depth.num * a.depth.den

\* ProjectedFace.compareByDepth: b.depth - a.depth, here multiplied by the two
\* (positive) vertex counts so that it stays an integer of the same sign
compareByDepth(a, b) == b.depth.num * a.depth.den - a.depth.num * b.depth.den

\* Array.prototype.sort(compare) is stable: an element goes behind every
\* element that compares less than or equal to it
RECURSIVE InsertByCompare(_, _)
InsertByCompare(sorted, f) ==
    IF sorted = <<>> THEN <<f>>
    ELSE IF compareByDepth(sorted[1], f) <= 0
    THEN <<sorted[1]>> \o InsertByCompare(Tail(sorted), f)
    ELSE <<f>> \o sorted

\* allFaces.sort(ProjectedFace.compareByDepth)
RECURSIVE SortByDepthFrom(_, _, _)
SortByDepthFrom(faces, i, sorted) ==
    IF i > Len(faces) THEN sorted
    ELSE SortByDepthFrom(faces, i + 1, InsertByCompare(sorted, faces[i]))

\* ------------------------------------------------------------------ Engine

\* #defaultEdgeColor
defaultEdgeColor == "#008000"

\* Renderer #backgroundColor (no background gradient is set)
backgroundColor == "#000000"

\* Engine.#renderAllObjects, the collection loop: the faces of the objects
\* from the i-th on, in the order of the list
RECURSIVE collectFaces(_, _, _)
collectFaces(cam, objs, i) ==
    IF i > Len(objs) THEN <<>>
    ELSE projectSceneObject(cam, objs[i]) \o collectFaces(cam, objs, i + 1)

\* mutant of renderFace: the edges are stroked before the face is filled
renderFace_EdgesFirst(face, sorting) ==
    LET positions == face.screenPositions
        edgeColor == IF Truthy(Get(face, "color")) THEN Get(face, "color")
                     ELSE defaultEdgeColor
        gradientEndColor == Get(face, "gradientColor")
        fillColor == Get(face, "faceColor")
        occlusionColor == IF Truthy(fillColor) THEN fillColor ELSE backgroundColor
        fill == IF sorting
                THEN << [op |-> "fillFace", obj |-> face.obj, face |-> face.face,
                         color |-> occlusionColor] >>
                ELSE <<>>
        edges == [i \in 1..Len(positions) |->
                    [op |-> IF Truthy(gradientEndColor) THEN "renderEdgeGradient"
                            ELSE "renderEdgeWithColor",
                     obj |-> face.obj, face |-> face.face, edge |-> i - 1,
                     color |-> edgeColor]]
    IN edges \o fill

\* Engine.#renderAllObjects, the body of the loop over allFaces: the renderer
\* calls made for one face (depth fog and bloom are off)
renderFace(face, sorting) ==
    LET positions == face.screenPositions
        edgeColor == IF Truthy(Get(face, "color")) THEN Get(face, "color")
                     ELSE defaultEdgeColor
        gradientEndColor == Get(face, "gradientColor")
        fillColor == Get(face, "faceColor")
        occlusionColor == IF Truthy(fillColor) THEN fillColor ELSE backgroundColor
        fill == IF sorting
                THEN << [op |-> "fillFace", obj |-> face.obj, face |-> face.face,
                         color |-> occlusionColor] >>
                ELSE <<>>
        edges == [i \in 1..Len(positions) |->
                    [op |-> IF Truthy(gradientEndColor) THEN "renderEdgeGradient"
                            ELSE "renderEdgeWithColor",
                     obj |-> face.obj, face |-> face.face, edge |-> i - 1,
                     color |-> edgeColor]]
    IN fill \o edges

\* the renderer calls for the faces from the i-th on
RECURSIVE renderFacesFrom(_, _, _)
renderFacesFrom(faces, i, sorting) ==
    IF i > Len(faces) THEN <<>>
    ELSE renderFace(faces[i], sorting) \o renderFacesFrom(faces, i + 1, sorting)

\* Engine.#renderAllObjects: the objects visited, the faces in the order they
\* are drawn, and the renderer calls made
renderAllObjects(sc, cam, sorting) ==
    LET objs == sceneObjects(sc)
        collected == collectFaces(cam, objs, 1)
        faces == IF sorting THEN SortByDepthFrom(collected, 1, <<>>) ELSE collected
    IN [visited |-> objs, allFaces |-> faces, calls |-> renderFacesFrom(faces, 1, sorting)]

\* a frame callback that does nothing
NoCallback == [op |-> "none", obj |-> Null]

\* the objects the application's frame callback adds and removes
CallbackObjects == {"a", "b"}

\* What the application's frame callback does in one invocation: nothing,
\* engine.stop(), or one Scene call.  The callback returns normally, so it
\* adds only an object that is not registered.
CallbackOps ==
    {NoCallback, [op |-> "stop", obj |-> Null]}
    \cup {[op |-> t, obj |-> o] :
              t \in {"addSceneObject", "removeSceneObject"}, o \in CallbackObjects}

\* the callback's effect on the Scene, and the id an add returned
callbackScene(sc, cb) ==
    CASE cb.op = "addSceneObject" -> addSceneObject(sc, cb.obj)
      [] cb.op = "removeSceneObject" ->
           [scene |-> removeSceneObject(sc, cb.obj), threw |-> FALSE, ret |-> Undefined]
      [] OTHER -> [scene |-> sc, threw |-> FALSE, ret |-> Undefined]

\* the calls the callback makes, as events
callbackCalls(sc, cb) ==
    CASE cb.op \in {"addSceneObject", "removeSceneObject"} ->
           << [op |-> cb.op, obj |-> cb.obj, threw |-> callbackScene(sc, cb).threw,
               ret |-> callbackScene(sc, cb).ret] >>
      [] cb.op = "stop" -> << [op |-> "stop"] >>
      [] OTHER -> <<>>

\* mutant of deltaTimeOf: no special case for the first frame
deltaTimeOf_NoFirstFrame(last, now) == now - last

\* deltaTime of #frameUpdate, in milliseconds: 0 while #lastFrameTime is falsy
deltaTimeOf(last, now) == IF last # 0 THEN now - last ELSE 0

\* mutant of frameStep: the surface is cleared and drawn before the callback runs
frameStep_DrawsFirst(eng, sc, cam, now, cb) ==
    LET deltaTime == deltaTimeOf(eng.lastFrameTime, now)
        invoked == eng.onFrameUpdate
        did == IF invoked THEN cb ELSE NoCallback
        after == callbackScene(sc, did)
        r == renderAllObjects(sc, cam, eng.isDepthSorting)
    IN [isRunning |-> IF did.op = "stop" THEN FALSE ELSE eng.isRunning,
        lastFrameTime |-> now,
        scene |-> after.scene,
        removed |-> IF did.op = "removeSceneObject" /\ MapHas(sc.objectToId, did.obj)
                    THEN {did.obj} ELSE {},
        events |-> << [op |-> "clear"] >> \o r.calls
                   \o (IF invoked
                       THEN << [op |-> "onFrameUpdate", deltaTime |-> deltaTime] >>
                            \o callbackCalls(sc, did)
                       ELSE <<>>)
                   \o << [op |-> "requestAnimationFrame"] >>,
        allFaces |-> r.allFaces,
        visited |-> r.visited,
        ids |-> IF did.op = "addSceneObject" THEN <<after.ret>> ELSE <<>>,
        requested |-> 1]

\* Engine.#frameUpdate after its guard: one frame step.  eng is the engine's
\* fields at entry, cb what the callback does if it is invoked.
frameStep(eng, sc, cam, now, cb) ==
    LET deltaTime == deltaTimeOf(eng.lastFrameTime, now)
        invoked == eng.onFrameUpdate
        did == IF invoked THEN cb ELSE NoCallback
        after == callbackScene(sc, did)
        r == renderAllObjects(after.scene, cam, eng.isDepthSorting)
    IN [isRunning |-> IF did.op = "stop" THEN FALSE ELSE eng.isRunning,
        lastFrameTime |-> now,
        scene |-> after.scene,
        removed |-> IF did.op = "removeSceneObject" /\ MapHas(sc.objectToId, did.obj)
                    THEN {did.obj} ELSE {},
        events |-> (IF invoked
                    THEN << [op |-> "onFrameUpdate", deltaTime |-> deltaTime] >>
                         \o callbackCalls(sc, did)
                    ELSE <<>>)
                   \o << [op |-> "clear"] >> \o r.calls
                   \o << [op |-> "requestAnimationFrame"] >>,
        allFaces |-> r.allFaces,
        visited |-> r.visited,
        ids |-> IF did.op = "addSceneObject" THEN <<after.ret>> ELSE <<>>,
        requested |-> 1]

\* mutant of frameUpdate: the running flag is not checked
frameUpdate_NoGuard(eng, sc, cam, now, cb) == frameStep(eng, sc, cam, now, cb)

\* Engine.#frameUpdate: nothing at all unless the engine is running
frameUpdate(eng, sc, cam, now, cb) ==
    IF ~eng.isRunning
    THEN [isRunning |-> eng.isRunning, lastFrameTime |-> eng.lastFrameTime, scene |-> sc,
          removed |-> {}, events |-> <<>>, allFaces |-> <<>>, visited |-> <<>>,
          ids |-> <<>>, requested |-> 0]
    ELSE frameStep(eng, sc, cam, now, cb)

\* ------------------------------------------------------------------ WavefrontLexer

\* A source text is a sequence of one-character strings.  A number is kept as
\* the exact decimal fraction num / den, den the least power of ten.

\* what peek() and peekNext() return at the end of the source
NUL == "NUL"

\* the digits in order: the value of a digit is its place minus one
Digits == <<"0", "1", "2", "3", "4", "5", "6", "7", "8", "9">>

\* the letters and the underscore
Letters == {"a", "b", "c", "d", "e", "f", "g", "h", "i", "j", "k", "l", "m",
            "n", "o", "p", "q", "r", "s", "t", "u", "v", "w", "x", "y", "z",
            "A", "B", "C", "D", "E", "F", "G", "H", "I", "J", "K", "L", "M",
            "N", "O", "P", "Q", "R", "S", "T", "U", "V", "W", "X", "Y", "Z", "_"}

\* WavefrontLexer.isDigit
isDigit(c) == \E i \in 1..10 : Digits[i] = c

\* WavefrontLexer.isAlpha
isAlpha(c) == c \in Letters

\* WavefrontLexer.isAlphaNumeric
isAlphaNumeric(c) == isAlpha(c) \/ isDigit(c)

\* WavefrontLexer.isAtEnd, current 0-based
lexerIsAtEnd(source, current) == current >= Len(source)

\* WavefrontLexer.peek
lexerPeek(source, current) ==
    IF lexerIsAtEnd(source, current) THEN NUL ELSE source[current + 1]

\* WavefrontLexer.peekNext
peekNext(source, current) ==
    IF current + 1 >= Len(source) THEN NUL ELSE source[current + 2]

\* source.substring(start, current)
Substring(source, start, current) == SubSeq(source, start + 1, current)

\* ten to the power n
RECURSIVE Pow10(_)
Pow10(n) == IF n = 0 THEN 1 ELSE 10 * Pow10(n - 1)

\* a fraction with a power-of-ten denominator, reduced
RECURSIVE Reduced(_)
Reduced(q) ==
    IF q.den > 1 /\ q.num % 10 = 0
    THEN Reduced([num |-> q.num \div 10, den |-> q.den \div 10])
    ELSE q

\* the number a run of digits spells
RECURSIVE DigitsValue(_, _)
DigitsValue(chars, acc) ==
    IF chars = <<>> THEN acc
    ELSE DigitsValue(Tail(chars),
                     10 * acc + ((CHOOSE i \in 1..10 : Digits[i] = Head(chars)) - 1))

\* the length of the run of digits at the head of chars
RECURSIVE DigitRun(_)
DigitRun(chars) ==
    IF chars # <<>> /\ isDigit(Head(chars)) THEN 1 + DigitRun(Tail(chars)) ELSE 0

\* parseFloat of a lexeme of lexNumber: an optional minus sign, digits, an
\* optional point with digits, an optional exponent marker with an optional
\* sign and digits.  An exponent without digits is ignored.
parseFloat(lexeme) ==
    LET neg == lexeme # <<>> /\ Head(lexeme) = "-"
        body == IF neg THEN Tail(lexeme) ELSE lexeme
        n == DigitRun(body)
        afterInt == SubSeq(body, n + 1, Len(body))
        hasFrac == Len(afterInt) >= 2 /\ afterInt[1] = "." /\ isDigit(afterInt[2])
        k == IF hasFrac THEN DigitRun(Tail(afterInt)) ELSE 0
        afterFrac == IF hasFrac THEN SubSeq(afterInt, k + 2, Len(afterInt)) ELSE afterInt
        mantissa == DigitsValue(SubSeq(body, 1, n), 0) * Pow10(k)
                    + (IF hasFrac THEN DigitsValue(SubSeq(afterInt, 2, k + 1), 0) ELSE 0)
        hasMark == afterFrac # <<>> /\ afterFrac[1] \in {"e", "E"}
        afterMark == IF hasMark THEN Tail(afterFrac) ELSE <<>>
        expNeg == afterMark # <<>> /\ afterMark[1] = "-"
        expDigits == IF afterMark # <<>> /\ afterMark[1] \in {"+", "-"}
                     THEN Tail(afterMark) ELSE afterMark
        e == DigitsValue(SubSeq(expDigits, 1, DigitRun(expDigits)), 0)
        num == IF expNeg THEN mantissa ELSE mantissa * Pow10(e)
        den == IF expNeg THEN Pow10(k) * Pow10(e) ELSE Pow10(k)
    IN Reduced([num |-> IF neg THEN -num ELSE num, den |-> den])

\* the position after the digits at current
RECURSIVE skipDigits(_, _)
skipDigits(source, current) ==
    IF isDigit(lexerPeek(source, current)) THEN skipDigits(source, current + 1) ELSE current

\* WavefrontLexer.lexNumber: the position after the number and its token
lexNumber(source, start, current) ==
    LET c1 == skipDigits(source, current)
        c2 == IF lexerPeek(source, c1) = "." /\ isDigit(peekNext(source, c1))
              THEN skipDigits(source, c1 + 1) ELSE c1
        c3 == IF lexerPeek(source, c2) \in {"e", "E"}
              THEN LET c4 == c2 + 1
                       c5 == IF lexerPeek(source, c4) \in {"+", "-"} THEN c4 + 1 ELSE c4
                   IN skipDigits(source, c5)
              ELSE c2
    IN [current |-> c3,
        tokens |-> << [type |-> "NUMBER", value |-> parseFloat(Substring(source, start, c3))] >>]

\* the position after the letters and digits at current
RECURSIVE skipAlphaNumeric(_, _)
skipAlphaNumeric(source, current) ==
    IF isAlphaNumeric(lexerPeek(source, current)) THEN skipAlphaNumeric(source, current + 1)
    ELSE current

\* WavefrontLexer.lexKeyword: the position after the keyword and its token
lexKeyword(source, start, current) ==
    LET c1 == skipAlphaNumeric(source, current)
    IN [current |-> c1,
        tokens |-> << [type |-> "KEYWORD", value |-> Substring(source, start, c1)] >>]

\* the position of the end of the line a comment is on
RECURSIVE skipComment(_, _)
skipComment(source, current) ==
    IF lexerPeek(source, current) # "\n" /\ ~lexerIsAtEnd(source, current)
    THEN skipComment(source, current + 1)
    ELSE current

\* mutant of lexToken: the character is read without advance(), so a
\* whitespace character is left where it is
lexToken_NoAdvance(source, start) ==
    LET c == source[start + 1]
        current == start + 1
    IN IF c \in {" ", "\t", "\r"} THEN [current |-> start, tokens |-> <<>>]
       ELSE IF c = "\n"
       THEN [current |-> current, tokens |-> << [type |-> "NEWLINE", value |-> "\n"] >>]
       ELSE IF c = "#" THEN [current |-> skipComment(source, current), tokens |-> <<>>]
       ELSE IF c = "/"
       THEN [current |-> current, tokens |-> << [type |-> "SLASH", value |-> "/"] >>]
       ELSE IF isDigit(c) \/ (c = "-" /\ isDigit(lexerPeek(source, current)))
       THEN lexNumber(source, start, current)
       ELSE IF isAlpha(c) THEN lexKeyword(source, start, current)
       ELSE [current |-> current, tokens |-> <<>>]

\* WavefrontLexer.lexToken at position start: the position after it and the
\* tokens pushed (none or one)
lexToken(source, start) ==
    LET c == source[start + 1]
        current == start + 1
    IN IF c \in {" ", "\t", "\r"} THEN [current |-> current, tokens |-> <<>>]
       ELSE IF c = "\n"
       THEN [current |-> current, tokens |-> << [type |-> "NEWLINE", value |-> "\n"] >>]
       ELSE IF c = "#" THEN [current |-> skipComment(source, current), tokens |-> <<>>]
       ELSE IF c = "/"
       THEN [current |-> current, tokens |-> << [type |-> "SLASH", value |-> "/"] >>]
       ELSE IF isDigit(c) \/ (c = "-" /\ isDigit(lexerPeek(source, current)))
       THEN lexNumber(source, start, current)
       ELSE IF isAlpha(c) THEN lexKeyword(source, start, current)
       ELSE [current |-> current, tokens |-> <<>>]

\* the token that ends the stream
EOFToken == [type |-> "EOF", value |-> Null]

\* mutant of lexTokensFrom: the stream is returned without the EOF token
RECURSIVE lexTokensFrom_NoEOF(_, _, _)
lexTokensFrom_NoEOF(source, current, tokens) ==
    IF lexerIsAtEnd(source, current) THEN tokens
    ELSE LET r == lexToken(source, current)
         IN lexTokensFrom_NoEOF(source, r.current, tokens \o r.tokens)

\* WavefrontLexer.lexTokens, its loop from position current on with the
\* tokens pushed so far, and the final push of EOF
RECURSIVE lexTokensFrom(_, _, _)
lexTokensFrom(source, current, tokens) ==
    IF lexerIsAtEnd(source, current) THEN Append(tokens, EOFToken)
    ELSE LET r == lexToken(source, current)
         IN lexTokensFrom(source, r.current, tokens \o r.tokens)

\* new WavefrontLexer(source).lexTokens()
lexTokens(source) == lexTokensFrom(source, 0, <<>>)

\* ------------------------------------------------------------------ WavefrontParser

\* A parser is its fields [tokens, current, vertices, faceIndices] and threw,
\* set once reading .type of a token that does not exist has raised a
\* TypeError; nothing runs after that.

\* new WavefrontParser(tokens)
ParserNew(tokens) == [tokens |-> tokens, current |-> 0, vertices |-> <<>>,
                      faceIndices |-> <<>>, threw |-> FALSE]

\* whether #peek() returns a token (tokens[current] is not undefined)
HasToken(ps) == ps.current < Len(ps.tokens)

\* #peek().type where a token is there
PeekType(ps) == ps.tokens[ps.current + 1].type

\* the parser after a TypeError
Thrown(ps) == [ps EXCEPT !.threw = TRUE]

\* WavefrontParser.#isAtEnd: past the last token, or at EOF
parserIsAtEnd(ps) == ps.current >= Len(ps.tokens) \/ PeekType(ps) = "EOF"

\* WavefrontParser.#advance
parserAdvance(ps) == IF ~parserIsAtEnd(ps) THEN [ps EXCEPT !.current = @ + 1] ELSE ps

\* the number 0 that #consumeNumber returns when no number is there
Zero == [num |-> 0, den |-> 1]

\* WavefrontParser.#consumeNumber: the parser after it and the value returned
consumeNumber(ps) ==
    IF ~HasToken(ps) THEN [ps |-> Thrown(ps), value |-> Zero]
    ELSE IF PeekType(ps) = "NUMBER"
    THEN [ps |-> parserAdvance(ps), value |-> ps.tokens[ps.current + 1].value]
    ELSE [ps |-> ps, value |-> Zero]

\* WavefrontParser.#skipToNextLine
RECURSIVE skipToNextLine(_)
skipToNextLine(ps) ==
    IF ps.threw THEN ps
    ELSE IF ~parserIsAtEnd(ps) /\ PeekType(ps) # "NEWLINE"
    THEN skipToNextLine(parserAdvance(ps))
    ELSE IF ~parserIsAtEnd(ps) /\ PeekType(ps) = "NEWLINE" THEN parserAdvance(ps)
    ELSE ps

\* mutant of parseVertex: a vertex is pushed only when three numbers were there
parseVertex_NeedsThree(ps) ==
    LET x == consumeNumber(ps)
        y == consumeNumber(x.ps)
        z == consumeNumber(y.ps)
    IN IF z.ps.threw THEN z.ps
       ELSE IF z.ps.current = ps.current + 3
       THEN skipToNextLine([z.ps EXCEPT !.vertices = Append(@, <<x.value, y.value, z.value>>)])
       ELSE skipToNextLine(z.ps)

\* WavefrontParser.#parseVertex
parseVertex(ps) ==
    LET x == consumeNumber(ps)
        y == consumeNumber(x.ps)
        z == consumeNumber(y.ps)
    IN IF z.ps.threw THEN z.ps
       ELSE skipToNextLine([z.ps EXCEPT !.vertices = Append(@, <<x.value, y.value, z.value>>)])

\* a number minus 1
MinusOne(q) == [num |-> q.num - q.den, den |-> q.den]

\* WavefrontParser.#parseFace, the inner loop over the slashes after an index
RECURSIVE skipSlashes(_)
skipSlashes(ps) ==
    IF ~HasToken(ps) THEN Thrown(ps)
    ELSE IF PeekType(ps) = "SLASH"
    THEN LET a == parserAdvance(ps)
         IN IF ~HasToken(a) THEN Thrown(a)
            ELSE IF PeekType(a) = "NUMBER" THEN skipSlashes(parserAdvance(a))
            ELSE skipSlashes(a)
    ELSE ps

\* mutant of faceLoop: the indices after the slashes are pushed as well
RECURSIVE faceLoop_KeepsAll(_, _)
faceLoop_KeepsAll(ps, indices) ==
    IF ps.threw THEN [ps |-> ps, indices |-> indices]
    ELSE IF ~parserIsAtEnd(ps) /\ PeekType(ps) # "NEWLINE"
    THEN IF PeekType(ps) = "NUMBER"
         THEN LET n == consumeNumber(ps)
              IN faceLoop_KeepsAll(n.ps, Append(indices, MinusOne(n.value)))
         ELSE faceLoop_KeepsAll(parserAdvance(ps), indices)
    ELSE [ps |-> ps, indices |-> indices]

\* WavefrontParser.#parseFace, the loop that consumes the line: the parser
\* after it and the indices collected
RECURSIVE faceLoop(_, _)
faceLoop(ps, indices) ==
    IF ps.threw THEN [ps |-> ps, indices |-> indices]
    ELSE IF ~parserIsAtEnd(ps) /\ PeekType(ps) # "NEWLINE"
    THEN IF PeekType(ps) = "NUMBER"
         THEN LET n == consumeNumber(ps)
                  vertexIndex == MinusOne(n.value)
              IN faceLoop(skipSlashes(n.ps), Append(indices, vertexIndex))
         ELSE faceLoop(parserAdvance(ps), indices)
    ELSE [ps |-> ps, indices |-> indices]

\* the least number of indices a face is kept with
MinFaceIndices == 3

\* mutant of parseFace: a face of any length is kept
parseFace_KeepsShort(ps) ==
    LET r == faceLoop(ps, <<>>)
    IN IF r.ps.threw THEN r.ps
       ELSE skipToNextLine([r.ps EXCEPT !.faceIndices = Append(@, r.indices)])

\* WavefrontParser.#parseFace
parseFace(ps) ==
    LET r == faceLoop(ps, <<>>)
    IN IF r.ps.threw THEN r.ps
       ELSE IF Len(r.indices) >= MinFaceIndices
       THEN skipToNextLine([r.ps EXCEPT !.faceIndices = Append(@, r.indices)])
       ELSE skipToNextLine(r.ps)

\* WavefrontParser.#parseStatement
parseStatement(ps) ==
    LET token == ps.tokens[ps.current + 1]
    IN IF token.type = "NEWLINE" THEN parserAdvance(ps)
       ELSE IF token.type = "KEYWORD"
       THEN IF token.value = <<"v">> THEN parseVertex(parserAdvance(ps))
            ELSE IF token.value = <<"f">> THEN parseFace(parserAdvance(ps))
            ELSE skipToNextLine(ps)
       ELSE parserAdvance(ps)

\* WavefrontParser.parse, its loop
RECURSIVE parseFrom(_)
parseFrom(ps) ==
    IF ps.threw \/ parserIsAtEnd(ps) THEN ps ELSE parseFrom(parseStatement(ps))

\* WavefrontParser.parse: what it returns, or that it threw
parse(ps) ==
    LET end == parseFrom(ps)
    IN [threw |-> end.threw, vertices |-> end.vertices, faceIndices |-> end.faceIndices]

\* WavefrontMeshConverter.fromText: the Mesh, or that the call threw
fromText(text) ==
    LET tokens == lexTokens(text)
        r == parse(ParserNew(tokens))
    IN [threw |-> r.threw, vertices |-> r.vertices, faceIndices |-> r.faceIndices]

\* ------------------------------------------------------------------ ColorUtils

\* A fog amount is kept as the exact fraction num / den, den positive.

\* mutant of calculateFogAmount: the clamps compare strictly
calculateFogAmount_StrictClamps(depth, fogNear, fogFar) ==
    IF depth < fogNear THEN [num |-> 0, den |-> 1]
    ELSE IF depth > fogFar THEN [num |-> 1, den |-> 1]
    ELSE [num |-> depth - fogNear, den |-> fogFar - fogNear]

\* mutant of calculateFogAmount: no clamp at the far plane
calculateFogAmount_NoFarClamp(depth, fogNear, fogFar) ==
    IF depth <= fogNear THEN [num |-> 0, den |-> 1]
    ELSE IF fogFar > fogNear THEN [num |-> depth - fogNear, den |-> fogFar - fogNear]
    ELSE [num |-> 1, den |-> 1]

\* ColorUtils.calculateFogAmount(depth, near, far)
calculateFogAmount(depth, fogNear, fogFar) ==
    IF depth <= fogNear THEN [num |-> 0, den |-> 1]
    ELSE IF depth >= fogFar THEN [num |-> 1, den |-> 1]
    ELSE [num |-> depth - fogNear, den |-> fogFar - fogNear]

\* ------------------------------------------------------------------ effect settings

\* {...a, ...b}: the fields of a, then those of b over them
Merge(a, b) == [k \in DOMAIN a \cup DOMAIN b |-> IF k \in DOMAIN b THEN b[k] ELSE a[k]]

\* the initial value of Engine.#depthFog
DepthFogDefault == [enabled |-> FALSE, color |-> "#000000", near |-> 5, far |-> 50]

\* the initial value of Renderer.#bloom
BloomDefault == [enabled |-> FALSE, blur |-> 5, color |-> Null]

\* mutant of setDepthFog: the options replace the settings
setDepthFog_Replace(current, options) == options

\* engine.depthFog = options: the new value of Engine.#depthFog
setDepthFog(current, options) == Merge(current, options)

\* renderer.bloom = options: the new value of Renderer.#bloom
rendererSetBloom(current, options) == Merge(current, options)

\* engine.bloom = options hands the options to the renderer's setter
setBloom(current, options) == rendererSetBloom(current, options)

\* ------------------------------------------------------------------ Material

\* new Material(color, gradientColor, faceColor): the three originals and the
\* three current colors
MaterialNew(color, gradientColor, faceColor) ==
    [originalColor |-> color, originalGradientColor |-> gradientColor,
     originalFaceColor |-> faceColor,
     color |-> color, gradientColor |-> gradientColor, faceColor |-> faceColor]

\* material.setColor(value)
setColor(mat, value) == [mat EXCEPT !.color = value]

\* material.setGradientColor(value)
setGradientColor(mat, value) == [mat EXCEPT !.gradientColor = value]

\* material.setFaceColor(value)
setFaceColor(mat, value) == [mat EXCEPT !.faceColor = value]

\* material.resetColor()
resetColor(mat) == [mat EXCEPT !.color = mat.originalColor]

\* mutant of resetGradientColor: every channel goes back to its original
resetGradientColor_All(mat) ==
    [mat EXCEPT !.color = mat.originalColor, !.gradientColor = mat.originalGradientColor,
                !.faceColor = mat.originalFaceColor]

\* material.resetGradientColor()
resetGradientColor(mat) == [mat EXCEPT !.gradientColor = mat.originalGradientColor]

\* material.resetFaceColor()
resetFaceColor(mat) == [mat EXCEPT !.faceColor = mat.originalFaceColor]

\* material.resetAllColors(): the three resets in turn
resetAllColors(mat) == resetFaceColor(resetGradientColor(resetColor(mat)))

\* ------------------------------------------------------------------ Transform

\* Angles are integers.  Math.cos and Math.sin are exact at angle 0 only, and
\* a product with a zero factor is zero whatever the other, finite, factor is.
cos == [angle \in {0} |-> 1]
sin == [angle \in {0} |-> 0]

\* a * f(angle) for f either Math.cos or Math.sin
Times(a, f, angle) == IF a = 0 THEN 0 ELSE a * f[angle]

\* whether rotating the components a and b of a vector by angle is exact
IsExact(a, b, angle) == angle = 0 \/ (a = 0 /\ b = 0)

\* Vector3.getRotatedX(angle)
getRotatedX(v, angle) ==
    <<v[1],
      Times(v[2], cos, angle) - Times(v[3], sin, angle),
      Times(v[2], sin, angle) + Times(v[3], cos, angle)>>

\* Vector3.getRotatedY(angle)
getRotatedY(v, angle) ==
    <<Times(v[1], cos, angle) - Times(v[3], sin, angle),
      v[2],
      Times(v[1], sin, angle) + Times(v[3], cos, angle)>>

\* Vector3.getRotatedZ(angle)
getRotatedZ(v, angle) ==
    <<Times(v[1], cos, angle) - Times(v[2], sin, angle),
      Times(v[1], sin, angle) + Times(v[2], cos, angle),
      v[3]>>

\* Vector3.getRotated(rotation): about X, then Y, then Z
getRotated(v, rotation) ==
    getRotatedZ(getRotatedY(getRotatedX(v, rotation[1]), rotation[2]), rotation[3])

\* whether each of the three steps of getRotated(rotation) is exact
IsExactRotated(v, rotation) ==
    /\ IsExact(v[2], v[3], rotation[1])
    /\ LET vx == getRotatedX(v, rotation[1])
       IN  /\ IsExact(vx[1], vx[3], rotation[2])
           /\ LET vy == getRotatedY(vx, rotation[2])
              IN  IsExact(vy[1], vy[2], rotation[3])

\* The three Transform classes of the repository that rotate by a Vector3 or
\* about one axis: the one with rotateX, rotateY and rotateZ
\* (transform.js:6-87), the one whose rotate calls getRotated
\* (transform.js:89-245) and the one whose rotate calls getTranslated
\* (part_009).
Revisions == {"axes", "getRotated", "getTranslated"}

\* new Transform(position, rotation, scale) of the class revision
TransformNew(revision, position, rotation, scale) ==
    [revision |-> revision, position |-> position, rotation |-> rotation, scale |-> scale]

\* mutant of rotate: the angles are added to the position
rotate_Moves(t, rotation) ==
    [t EXCEPT !.position = getTranslated(t.position, rotation)]

\* transform.rotate(rotation), in the two classes that have it
rotate(t, rotation) ==
    IF t.revision = "getRotated"
    THEN [t EXCEPT !.rotation = getRotated(t.rotation, rotation)]
    ELSE [t EXCEPT !.rotation = getTranslated(t.rotation, rotation)]

\* transform.rotateX(angle)
rotateX(t, angle) == [t EXCEPT !.rotation = getTranslated(t.rotation, <<angle, 0, 0>>)]

\* transform.rotateY(angle)
rotateY(t, angle) == [t EXCEPT !.rotation = getTranslated(t.rotation, <<0, angle, 0>>)]

\* transform.rotateZ(angle)
rotateZ(t, angle) == [t EXCEPT !.rotation = getTranslated(t.rotation, <<0, 0, angle>>)]

\* ------------------------------------------------------------------ the demo's clearSceneObjects

\* Scene.getSceneObjects(): the Scene's own array, not a copy, so what it
\* holds at any moment is the list of the Scene at that moment
getSceneObjects(sc) == sc.sceneObjects

\* for (const sceneObject of collection) engine.scene.removeSceneObject(sceneObject),
\* from the array iterator's index i on: the iterator reads the length and the
\* element of the array at each step.  With live the collection is the Scene's
\* own array, otherwise the copy taken before the loop.  seen collects the
\* objects visited.
RECURSIVE clearFrom(_, _, _, _, _)
clearFrom(sc, live, copy, i, seen) ==
    LET collection == IF live THEN getSceneObjects(sc) ELSE copy
    IN IF i >= Len(collection) THEN [scene |-> sc, seen |-> seen]
       ELSE LET sceneObject == collection[i + 1]
            IN clearFrom(removeSceneObject(sc, sceneObject), live, copy, i + 1,
                         Append(seen, sceneObject))

\* clearSceneObjects(engine) of the demo: over engine.scene.getSceneObjects()
\* (live) or over engine.scene.sceneObjects (a copy)
clearSceneObjects(sc, live) == clearFrom(sc, live, sceneObjects(sc), 0, <<>>)

\* ------------------------------------------------------------------ Renderer: bloom

\* The off-screen bloom surface is kept as whether #bloomCanvas has been
\* created and the fills and strokes made on it since it was last cleared.

\* a Renderer before its bloom surface is created
BloomCanvasNew == [created |-> FALSE, strokes |-> <<>>]

\* Renderer.isBloomEnabled
isBloomEnabled(settings) == settings.enabled

\* mutant of clearBloomCanvas: the surface is created but not cleared
clearBloomCanvas_KeepsStrokes(canvas, settings) ==
    IF ~settings.enabled THEN canvas ELSE [canvas EXCEPT !.created = TRUE]

\* Renderer.clearBloomCanvas: the surface after the call
clearBloomCanvas(canvas, settings) ==
    IF ~settings.enabled THEN canvas ELSE [created |-> TRUE, strokes |-> <<>>]

\* Renderer.fillFaceOnBloom: the surface after the fill
fillFaceOnBloom(canvas, settings, stroke) ==
    IF ~settings.enabled \/ ~canvas.created THEN canvas
    ELSE [canvas EXCEPT !.strokes = Append(@, stroke)]

\* Renderer.renderEdgeToBloom and renderEdgeGradientToBloom: the surface after
\* the stroke (they are called after clearBloomCanvas has created the surface)
renderEdgeToBloom(canvas, stroke) == [canvas EXCEPT !.strokes = Append(@, stroke)]

\* Renderer.compositeBloom: whether the surface is drawn onto the main
\* surface, and what it holds then
compositeBloom(canvas, settings) ==
    IF ~settings.enabled \/ ~canvas.created
    THEN [op |-> "compositeBloom", drawn |-> FALSE, image |-> <<>>]
    ELSE [op |-> "compositeBloom", drawn |-> TRUE, image |-> canvas.strokes]

\* the call on the bloom surface that follows a drawing call on the main one
OnBloom(call) ==
    [call EXCEPT !.op = CASE call.op = "fillFace" -> "fillFaceOnBloom"
                         [] call.op = "renderEdgeWithColor" -> "renderEdgeToBloom"
                         [] call.op = "renderEdgeGradient" -> "renderEdgeGradientToBloom"]

\* Engine.#renderAllObjects, the body of the loop over allFaces with bloom
\* enabled, from the i-th drawing call of the face on: each call on the main
\* surface, then the same on the bloom surface.  Returns the calls made and
\* the bloom surface after them.
RECURSIVE renderCallsOnBloom(_, _, _, _)
renderCallsOnBloom(calls, i, canvas, settings) ==
    IF i > Len(calls) THEN [calls |-> <<>>, canvas |-> canvas]
    ELSE LET twin == OnBloom(calls[i])
             after == IF twin.op = "fillFaceOnBloom"
                      THEN fillFaceOnBloom(canvas, settings, twin)
                      ELSE renderEdgeToBloom(canvas, twin)
             rest == renderCallsOnBloom(calls, i + 1, after, settings)
         IN [calls |-> <<calls[i], twin>> \o rest.calls, canvas |-> rest.canvas]

\* Engine.#renderAllObjects after the faces are collected and sorted: the
\* bloom check, the clearing of the bloom surface, the loop over allFaces and
\* the composite.  Returns the renderer calls and the bloom surface after them.
renderFacesWithBloom(faces, sorting, canvas, settings) ==
    LET bloomEnabled == isBloomEnabled(settings)
        check == << [op |-> "isBloomEnabled", ret |-> bloomEnabled] >>
    IN IF ~bloomEnabled
       THEN [calls |-> check \o renderFacesFrom(faces, 1, sorting), canvas |-> canvas]
       ELSE LET cleared == clearBloomCanvas(canvas, settings)
                drawn == renderCallsOnBloom(renderFacesFrom(faces, 1, sorting), 1,
                                            cleared, settings)
            IN [calls |-> check
                          \o << [op |-> "clearBloomCanvas", discarded |-> Len(canvas.strokes)] >>
                          \o drawn.calls
                          \o << compositeBloom(drawn.canvas, settings) >>,
                canvas |-> drawn.canvas]

\* ------------------------------------------------------------------ state

VARIABLES
    scene,          \* Engine.scene: the Scene's fields
    camera,         \* Engine.#camera: its position and culling flag
    isRunning,      \* Engine.#isRunning
    lastFrameTime,  \* Engine.#lastFrameTime
    isDepthSorting, \* Engine.#isDepthSorting
    onFrameUpdate,  \* whether Engine.#onFrameUpdate holds a callback
    pending,        \* requestAnimationFrame callbacks the host has yet to run
    events,         \* the latest operation and the calls it made, in order
    allFaces,       \* the allFaces array of the latest frame step, as drawn
    visited,        \* the objects the latest frame step projected, in order
    returned,       \* every id addSceneObject has returned, in order
    everRemoved,    \* the objects removeSceneObject has ever taken out of the Scene
    hasStepped,     \* whether a frame step has been executed
    args,           \* a library function called on its own: its name and arguments
    result,         \* whether that call has returned, and what it returned
    depthFog,       \* Engine.#depthFog
    bloom,          \* Renderer.#bloom
    material,       \* one Material of the application: its fields
    transform,      \* one Transform of the application: its fields
    bloomCanvas     \* Renderer.#bloomCanvas: whether it exists, and what is drawn on it

vars == <<scene, camera, isRunning, lastFrameTime, isDepthSorting, onFrameUpdate,
          pending, events, allFaces, visited, returned, everRemoved, hasStepped,
          args, result, depthFog, bloom, material, transform, bloomCanvas>>

\* the engine, its Scene and the record of its latest operation
engineState == <<scene, camera, isRunning, lastFrameTime, isDepthSorting, onFrameUpdate,
                 pending, events, allFaces, visited, returned, everRemoved, hasStepped>>

\* the effect settings and the application's Material and Transform
partVars == <<depthFog, bloom, material, transform, bloomCanvas>>

\* the variables of a library function or class used on its own
libVars == <<args, result, partVars>>

\* no library call is under way
NoCall == [fn |-> "none"]

\* the call has not returned yet
NoResult == [done |-> FALSE]

engineVars == <<isRunning, lastFrameTime, pending, hasStepped>>
configVars == <<camera, isDepthSorting, onFrameUpdate>>

\* the engine's fields as #frameUpdate reads them
Eng(running) == [isRunning |-> running, lastFrameTime |-> lastFrameTime,
                 isDepthSorting |-> isDepthSorting, onFrameUpdate |-> onFrameUpdate]

\* new Engine(canvas)
EngineInit ==
    /\ scene = SceneNew
    /\ camera = CameraNew
    /\ isRunning = FALSE
    /\ lastFrameTime = 0
    /\ isDepthSorting = TRUE
    /\ onFrameUpdate = FALSE
    /\ pending = 0
    /\ events = <<>>
    /\ allFaces = <<>>
    /\ visited = <<>>
    /\ returned = <<>>
    /\ everRemoved = {}
    /\ hasStepped = FALSE

\* the settings of a new Engine, and the Material and the Transform of the
\* README's quick start
PartsInit ==
    /\ depthFog = DepthFogDefault
    /\ bloom = BloomDefault
    /\ bloomCanvas = BloomCanvasNew
    /\ material = MaterialNew("#ffffff", Null, "#333333")
    /\ transform = TransformNew("getTranslated", <<0, 0, 5>>, <<0, 0, 0>>, <<1, 1, 1>>)

\* an application that has constructed its engine and calls nothing else
Init == EngineInit /\ PartsInit /\ args = NoCall /\ result = NoResult

\* an operation that is no frame step draws nothing
NoFrame == allFaces' = <<>> /\ visited' = <<>>

\* engine.scene.addSceneObject(o), called between frames
AddSceneObject(o) ==
    LET r == addSceneObject(scene, o)
    IN /\ r.threw \/ scene.nextId <= MaxId
       /\ scene' = r.scene
       /\ events' = << [op |-> "addSceneObject", obj |-> o, threw |-> r.threw, ret |-> r.ret] >>
       /\ returned' = IF r.threw THEN returned ELSE Append(returned, r.ret)
       /\ NoFrame
       /\ UNCHANGED <<engineVars, configVars, everRemoved, libVars>>

\* engine.scene.removeSceneObject(o), called between frames
RemoveSceneObject(o) ==
    /\ scene' = removeSceneObject(scene, o)
    /\ everRemoved' = IF MapHas(scene.objectToId, o) THEN everRemoved \cup {o} ELSE everRemoved
    /\ events' = << [op |-> "removeSceneObject", obj |-> o, threw |-> FALSE, ret |-> Undefined] >>
    /\ NoFrame
    /\ UNCHANGED <<engineVars, configVars, returned, libVars>>

\* engine.scene.getSceneObjectById(id)
GetSceneObjectById(id) ==
    /\ events' = << [op |-> "getSceneObjectById", id |-> id,
                     ret |-> getSceneObjectById(scene, id)] >>
    /\ NoFrame
    /\ UNCHANGED <<scene, engineVars, configVars, returned, everRemoved, libVars>>

\* engine.onFrameUpdate = callback (or null)
SetOnFrameUpdate(callback) ==
    /\ onFrameUpdate' = callback
    /\ events' = <<>>
    /\ NoFrame
    /\ UNCHANGED <<scene, engineVars, camera, isDepthSorting, returned, everRemoved,
                   libVars>>

\* engine.isDepthSorting = enabled
SetIsDepthSorting(enabled) ==
    /\ isDepthSorting' = enabled
    /\ events' = <<>>
    /\ NoFrame
    /\ UNCHANGED <<scene, engineVars, camera, onFrameUpdate, returned, everRemoved,
                   libVars>>

\* engine.camera.isBackFaceCulling = enabled
SetIsBackFaceCulling(enabled) ==
    /\ camera' = [camera EXCEPT !.isBackFaceCulling = enabled]
    /\ events' = <<>>
    /\ NoFrame
    /\ UNCHANGED <<scene, engineVars, isDepthSorting, onFrameUpdate, returned, everRemoved,
                   libVars>>

\* engine.camera.transform.setPosition(p)
SetCameraPosition(p) ==
    /\ camera' = [camera EXCEPT !.position = p]
    /\ events' = <<>>
    /\ NoFrame
    /\ UNCHANGED <<scene, engineVars, isDepthSorting, onFrameUpdate, returned, everRemoved,
                   libVars>>

\* the state after #frameUpdate, entered by `by` (start() or the host's tick),
\* has returned r, with `left` callbacks pending before it ran
AfterFrameUpdate(by, r, left) ==
    /\ isRunning' = r.isRunning
    /\ lastFrameTime' = r.lastFrameTime
    /\ scene' = r.scene
    /\ events' = <<[op |-> by]>> \o r.events
    /\ allFaces' = r.allFaces
    /\ visited' = r.visited
    /\ returned' = returned \o r.ids
    /\ everRemoved' = everRemoved \cup r.removed
    /\ pending' = left + r.requested
    /\ hasStepped' = (hasStepped \/ r.requested = 1)
    /\ UNCHANGED <<configVars, libVars>>

\* a callback behaviour that returns normally in the current state (with no
\* callback set there is only the empty behaviour)
CallbackReturns(cb) ==
    /\ onFrameUpdate \/ cb = NoCallback
    /\ cb.op = "addSceneObject" =>
           ~MapHas(scene.objectToId, cb.obj) /\ scene.nextId <= MaxId

\* Engine.start(): set the flag and run #frameUpdate at once.  now is what
\* performance.now() returns, never less than an earlier reading.
Start(now, cb) ==
    /\ pending < MaxPending
    /\ CallbackReturns(cb)
    /\ \E r \in {frameUpdate(Eng(TRUE), scene, camera, now, cb)} :
           AfterFrameUpdate("start", r, pending)

\* Engine.stop(), called between frames
Stop ==
    /\ isRunning' = FALSE
    /\ events' = << [op |-> "stop"] >>
    /\ NoFrame
    /\ UNCHANGED <<scene, configVars, lastFrameTime, pending, hasStepped, returned,
                   everRemoved, libVars>>

\* the host runs one pending requestAnimationFrame callback
HostTick(now, cb) ==
    /\ pending > 0
    /\ CallbackReturns(cb)
    /\ \E r \in {frameUpdate(Eng(isRunning), scene, camera, now, cb)} :
           AfterFrameUpdate("tick", r, pending - 1)

\* the frame loop: the application sets its callback and starts and stops the
\* engine, the host runs the pending callbacks, and the Scene changes through
\* what the frame callback does
Next ==
    \/ \E callback \in BOOLEAN : SetOnFrameUpdate(callback)
    \/ \E now \in lastFrameTime..MaxTime, cb \in CallbackOps : Start(now, cb)
    \/ Stop
    \/ \E now \in lastFrameTime..MaxTime, cb \in CallbackOps : HostTick(now, cb)

Spec == Init /\ [][Next]_vars

\* the Scene alone, called by the application
NextScene ==
    \/ \E o \in Objects : AddSceneObject(o)
    \/ \E o \in Objects : RemoveSceneObject(o)
    \/ \E id \in 1..(MaxId + 1) : GetSceneObjectById(id)

SpecScene == Init /\ [][NextScene]_vars

\* Engine.start() by an application that starts an engine only once
StartOnce(now) == ~isRunning /\ pending = 0 /\ Start(now, NoCallback)

\* rendering: the application builds and changes the Scene and the settings
\* between the frames of an engine that has no frame callback
NextRender ==
    \/ \E o \in Objects : AddSceneObject(o)
    \/ \E o \in Objects : RemoveSceneObject(o)
    \/ \E enabled \in BOOLEAN : SetIsDepthSorting(enabled)
    \/ \E enabled \in BOOLEAN : SetIsBackFaceCulling(enabled)
    \/ \E p \in CameraPositions : SetCameraPosition(p)
    \/ \E now \in lastFrameTime..MaxTime : StartOnce(now)
    \/ \E now \in lastFrameTime..MaxTime : HostTick(now, NoCallback)

SpecRender == Init /\ [][NextRender]_vars

\* the vertices a triangle handed to _isBackFacing is made of
TrianglePoints == {<<x, y, z>> : x \in -1..1, y \in -1..1, z \in 1..2}

\* a triangle is about to be classified by a camera at one of its positions
InitIsBackFacing ==
    /\ EngineInit
    /\ PartsInit
    /\ result = NoResult
    /\ \E v0 \in TrianglePoints, v1 \in TrianglePoints, v2 \in TrianglePoints,
          p \in CameraPositions :
           args = [fn |-> "_isBackFacing", cam |-> [CameraNew EXCEPT !.position = p],
                   faceVertices |-> <<v0, v1, v2>>]

\* camera._isBackFacing(faceVertices) returns
IsBackFacing ==
    /\ args.fn = "_isBackFacing"
    /\ ~result.done
    /\ result' = [done |-> TRUE, ret |-> _isBackFacing(args.cam, args.faceVertices)]
    /\ UNCHANGED <<engineState, args, partVars>>

\* back-face classification of a triangle on its own
SpecIsBackFacing == InitIsBackFacing /\ [][IsBackFacing]_vars

\* the depths and the fog planes calculateFogAmount is called with
FogDepths == -1..6
FogPlanes == 0..5

\* a fog amount is about to be calculated
InitFogAmount ==
    /\ EngineInit
    /\ PartsInit
    /\ result = NoResult
    /\ \E depth \in FogDepths, fogNear \in FogPlanes, fogFar \in FogPlanes :
           args = [fn |-> "calculateFogAmount", depth |-> depth, near |-> fogNear,
                   far |-> fogFar]

\* ColorUtils.calculateFogAmount(depth, near, far) returns
CalculateFogAmount ==
    /\ args.fn = "calculateFogAmount"
    /\ ~result.done
    /\ result' = [done |-> TRUE, ret |-> calculateFogAmount(args.depth, args.near, args.far)]
    /\ UNCHANGED <<engineState, args, partVars>>

\* the fog amount of a depth on its own
SpecFogAmount == InitFogAmount /\ [][CalculateFogAmount]_vars

\* ---- the OBJ pipeline called on its own

\* a number as an OBJ file spells it, and the number that spelling means
Lit(text, num, den) == [text |-> text, value |-> [num |-> num, den |-> den]]

\* an index group of an f line: the vertex index and what follows it
Group(index, extra) == [index |-> index, extra |-> extra]

\* a v line with the numbers given
VLine(nums) == [kind |-> "v", nums |-> nums, groups |-> <<>>, text |-> <<>>]

\* an f line with the index groups given
FLine(groups) == [kind |-> "f", nums |-> <<>>, groups |-> groups, text |-> <<>>]

\* any other line, spelled out
OtherLine(text) == [kind |-> "other", nums |-> <<>>, groups |-> <<>>, text |-> text]

L1 == Lit(<<"1">>, 1, 1)
L2 == Lit(<<"2">>, 2, 1)
L3 == Lit(<<"3">>, 3, 1)
L4 == Lit(<<"4">>, 4, 1)
LNeg == Lit(<<"-", "1">>, -1, 1)
LDec == Lit(<<"2", ".", "5">>, 25, 10)
LExp == Lit(<<"1", "e", "1">>, 10, 1)
LPad == Lit(<<"0", ".", "5", "0">>, 5, 10)

\* the lines OBJ texts are made of: vertices with three, two, one and no
\* number, faces with bare indices and with texture and normal indices, faces
\* with two, one and no index, a comment, a texture coordinate, a blank line
LineMenu ==
    { VLine(<<L1, L2, L3>>), VLine(<<LNeg, LDec, LExp>>), VLine(<<L4, LPad>>),
      VLine(<<L3>>), VLine(<<>>),
      FLine(<<Group(L1, <<>>), Group(L2, <<>>), Group(L3, <<>>)>>),
      FLine(<<Group(L1, <<"/", "2", "/", "3">>), Group(L2, <<"/", "2", "/", "3">>),
              Group(L4, <<"/", "1", "/", "3">>)>>),
      FLine(<<Group(L3, <<"/", "/", "1">>), Group(L2, <<"/", "/", "1">>),
              Group(L1, <<"/", "/", "1">>), Group(L4, <<"/", "/", "1">>)>>),
      FLine(<<Group(L1, <<"/", "2">>), Group(L2, <<"/", "2">>), Group(L3, <<"/">>)>>),
      FLine(<<Group(L1, <<>>), Group(L2, <<>>)>>),
      FLine(<<Group(L2, <<"/", "1">>)>>),
      FLine(<<>>),
      OtherLine(<<"#", " ", "v", " ", "1", " ", "2", " ", "3">>),
      OtherLine(<<"v", "t", " ", "1", " ", "2">>),
      OtherLine(<<>>) }

\* the characters texts of any shape are made of
Alphabet == {"v", "f", " ", "\n", "1", "/", "-", "#"}

\* the concatenation of a list of texts, each with a space before it
RECURSIVE Spaced(_)
Spaced(texts) == IF texts = <<>> THEN <<>> ELSE <<" ">> \o Head(texts) \o Spaced(Tail(texts))

\* a line as the file spells it
RenderLine(line) ==
    CASE line.kind = "v" ->
           <<"v">> \o Spaced([i \in 1..Len(line.nums) |-> line.nums[i].text])
      [] line.kind = "f" ->
           <<"f">> \o Spaced([i \in 1..Len(line.groups) |->
                                 line.groups[i].index.text \o line.groups[i].extra])
      [] OTHER -> line.text

\* the text of a file with these lines, the last one with or without its newline
RECURSIVE Render(_, _)
Render(lines, finalNewline) ==
    IF lines = <<>> THEN <<>>
    ELSE IF Len(lines) = 1
    THEN RenderLine(lines[1]) \o (IF finalNewline THEN <<"\n">> ELSE <<>>)
    ELSE RenderLine(lines[1]) \o <<"\n">> \o Render(Tail(lines), finalNewline)

\* a text is about to be converted: one made of up to MaxLines lines of the
\* menu, or any string of up to MaxLen characters of the alphabet
InitFromText ==
    /\ EngineInit
    /\ PartsInit
    /\ result = NoResult
    /\ \/ \E n \in 0..MaxLines : \E lines \in [1..n -> LineMenu], finalNewline \in BOOLEAN :
              args = [fn |-> "fromText", structured |-> TRUE, lines |-> lines,
                      finalNewline |-> finalNewline, text |-> Render(lines, finalNewline)]
       \/ \E n \in 0..MaxLen : \E text \in [1..n -> Alphabet] :
              args = [fn |-> "fromText", structured |-> FALSE, lines |-> <<>>,
                      finalNewline |-> FALSE, text |-> text]

\* WavefrontMeshConverter.fromText(text) returns or throws; tokens are the
\* tokens it handed to the parser
FromText ==
    /\ args.fn = "fromText"
    /\ ~result.done
    /\ result' = [done |-> TRUE, ret |-> fromText(args.text), tokens |-> lexTokens(args.text)]
    /\ UNCHANGED <<engineState, args, partVars>>

\* the conversion of an OBJ text on its own
SpecFromText == InitFromText /\ [][FromText]_vars

\* ---- the effect settings assigned on their own

\* the object holding only the fields keys of obj
Only(obj, keys) == [k \in keys |-> obj[k]]

\* complete depth-fog and bloom configurations an application may write
DepthFogObjects ==
    {[enabled |-> e, color |-> c, near |-> n, far |-> f] :
        e \in BOOLEAN, c \in {"#000000", "#ff0000"}, n \in {5, 1}, f \in {50, 10}}
BloomObjects ==
    {[enabled |-> e, blur |-> b, color |-> c] :
        e \in BOOLEAN, b \in {5, 15}, c \in {Null, "#ff00ff"}}

\* the configurations with any of their fields left out
DepthFogOptions == {Only(obj, keys) : obj \in DepthFogObjects, keys \in SUBSET DOMAIN DepthFogDefault}
BloomOptions == {Only(obj, keys) : obj \in BloomObjects, keys \in SUBSET DOMAIN BloomDefault}

\* engine.depthFog = options
SetDepthFog(options) ==
    /\ depthFog' = setDepthFog(depthFog, options)
    /\ args' = [fn |-> "set depthFog", options |-> options]
    /\ UNCHANGED <<engineState, result, bloom, material, transform, bloomCanvas>>

\* engine.bloom = options
SetBloom(options) ==
    /\ bloom' = setBloom(bloom, options)
    /\ args' = [fn |-> "set bloom", options |-> options]
    /\ UNCHANGED <<engineState, result, depthFog, material, transform, bloomCanvas>>

NextSettings ==
    \/ \E options \in DepthFogOptions : SetDepthFog(options)
    \/ \E options \in BloomOptions : SetBloom(options)

\* any sequence of assignments to the two settings of a new engine
SpecSettings == Init /\ [][NextSettings]_vars

\* ---- a Material used on its own

\* the colors an application gives a channel: none, or a hex string
Colors == {Null, "#ffffff", "#333333"}

\* a Material has been constructed
InitMaterial ==
    /\ EngineInit
    /\ depthFog = DepthFogDefault
    /\ bloom = BloomDefault
    /\ bloomCanvas = BloomCanvasNew
    /\ transform = TransformNew("getTranslated", <<0, 0, 5>>, <<0, 0, 0>>, <<1, 1, 1>>)
    /\ args = NoCall
    /\ result = NoResult
    /\ \E color \in Colors, gradientColor \in Colors, faceColor \in Colors :
           material = MaterialNew(color, gradientColor, faceColor)

\* the Material becomes mat through the call of its method fn
MaterialCall(fn, mat) ==
    /\ material' = mat
    /\ args' = [fn |-> fn]
    /\ UNCHANGED <<engineState, result, depthFog, bloom, transform, bloomCanvas>>

SetColor(value) == MaterialCall("setColor", setColor(material, value))
SetGradientColor(value) == MaterialCall("setGradientColor", setGradientColor(material, value))
SetFaceColor(value) == MaterialCall("setFaceColor", setFaceColor(material, value))
ResetColor == MaterialCall("resetColor", resetColor(material))
ResetGradientColor == MaterialCall("resetGradientColor", resetGradientColor(material))
ResetFaceColor == MaterialCall("resetFaceColor", resetFaceColor(material))
ResetAllColors == MaterialCall("resetAllColors", resetAllColors(material))

NextMaterial ==
    \/ \E value \in Colors : SetColor(value)
    \/ \E value \in Colors : SetGradientColor(value)
    \/ \E value \in Colors : SetFaceColor(value)
    \/ ResetColor
    \/ ResetGradientColor
    \/ ResetFaceColor
    \/ ResetAllColors

\* any sequence of calls on one Material
SpecMaterial == InitMaterial /\ [][NextMaterial]_vars

\* ---- a Transform used on its own

\* the angles an application rotates by, and the vectors of such angles
Angles == {-1, 0, 1}
AngleVectors == {<<x, y, z>> : x \in Angles, y \in Angles, z \in Angles}

\* whether every angle of a rotation is within the bound
InRange(rotation) == \A i \in 1..3 : rotation[i] \in -MaxAngle..MaxAngle

\* a Transform of one of the three classes has been constructed
InitTransform ==
    /\ EngineInit
    /\ depthFog = DepthFogDefault
    /\ bloom = BloomDefault
    /\ bloomCanvas = BloomCanvasNew
    /\ material = MaterialNew("#ffffff", Null, "#333333")
    /\ args = NoCall
    /\ result = NoResult
    /\ \E revision \in Revisions, position \in {<<0, 0, 5>>, <<1, 2, 3>>},
          rotation \in {<<0, 0, 0>>, <<1, 0, 0>>}, scale \in {<<1, 1, 1>>, <<2, 3, 4>>} :
           transform = TransformNew(revision, position, rotation, scale)

\* the Transform becomes t through the call recorded as call
TransformCall(call, t) ==
    /\ InRange(t.rotation)
    /\ transform' = t
    /\ args' = call
    /\ UNCHANGED <<engineState, result, depthFog, bloom, material, bloomCanvas>>

\* transform.rotate(rotation), with angles whose sines and cosines are exact
\* where the class takes them
Rotate(rotation) ==
    /\ transform.revision \in {"getRotated", "getTranslated"}
    /\ transform.revision = "getRotated" => IsExactRotated(transform.rotation, rotation)
    /\ TransformCall([fn |-> "rotate", rotation |-> rotation], rotate(transform, rotation))

\* transform.rotateX(angle)
RotateX(angle) ==
    /\ transform.revision = "axes"
    /\ TransformCall([fn |-> "rotateX", angle |-> angle], rotateX(transform, angle))

\* transform.rotateY(angle)
RotateY(angle) ==
    /\ transform.revision = "axes"
    /\ TransformCall([fn |-> "rotateY", angle |-> angle], rotateY(transform, angle))

\* transform.rotateZ(angle)
RotateZ(angle) ==
    /\ transform.revision = "axes"
    /\ TransformCall([fn |-> "rotateZ", angle |-> angle], rotateZ(transform, angle))

NextTransform ==
    \/ \E rotation \in AngleVectors : Rotate(rotation)
    \/ \E angle \in Angles : RotateX(angle)
    \/ \E angle \in Angles : RotateY(angle)
    \/ \E angle \in Angles : RotateZ(angle)

\* any sequence of rotations of one Transform
SpecTransform == InitTransform /\ [][NextTransform]_vars

\* ---- the demo clearing the Scene

\* clearSceneObjects(engine), called between frames
ClearSceneObjects(live) ==
    LET r == clearSceneObjects(scene, live)
    IN /\ scene' = r.scene
       /\ everRemoved' = everRemoved \cup {r.seen[i] : i \in 1..Len(r.seen)}
       /\ events' = << [op |-> "clearSceneObjects", live |-> live,
                        registered |-> sceneObjects(scene), seen |-> r.seen] >>
       /\ NoFrame
       /\ UNCHANGED <<engineVars, configVars, returned, libVars>>

NextClear ==
    \/ \E o \in Objects : AddSceneObject(o)
    \/ \E o \in Objects : RemoveSceneObject(o)
    \/ \E live \in BOOLEAN : ClearSceneObjects(live)

\* the application fills, changes and clears the Scene
SpecClear == Init /\ [][NextClear]_vars

\* ---- frames drawn with bloom

\* Engine.#frameUpdate of an engine without a frame callback, entered by
\* start() or by a tick, with `left` callbacks pending before it ran; its
\* #renderAllObjects checks the bloom setting and draws on the bloom surface
FrameWithBloom(by, running, now, left) ==
    \E r \in {frameUpdate(Eng(running), scene, camera, now, NoCallback)} :
        LET drawn == renderFacesWithBloom(r.allFaces, isDepthSorting, bloomCanvas, bloom)
        IN /\ isRunning' = r.isRunning
           /\ lastFrameTime' = r.lastFrameTime
           /\ allFaces' = r.allFaces
           /\ visited' = r.visited
           /\ pending' = left + r.requested
           /\ hasStepped' = (hasStepped \/ r.requested = 1)
           /\ events' = << [op |-> by] >>
                        \o (IF r.requested = 1
                            THEN << [op |-> "clear"] >> \o drawn.calls
                                 \o << [op |-> "requestAnimationFrame"] >>
                            ELSE <<>>)
           /\ bloomCanvas' = IF r.requested = 1 THEN drawn.canvas ELSE bloomCanvas
           /\ UNCHANGED <<scene, configVars, returned, everRemoved, args, result,
                          depthFog, bloom, material, transform>>

\* engine.start() on an engine that is not running
StartWithBloom(now) == ~isRunning /\ pending = 0 /\ FrameWithBloom("start", TRUE, now, pending)

\* the host runs the pending requestAnimationFrame callback
TickWithBloom(now) == pending > 0 /\ FrameWithBloom("tick", isRunning, now, pending - 1)

\* the objects of the scenes drawn with bloom
GlowingObjects == {"a", "b"}

\* the application switching bloom on and off
BloomSwitches == {[enabled |-> TRUE], [enabled |-> FALSE]}

\* the application changes the Scene, depth sorting and the bloom switch
\* between the frames of an engine that has no frame callback
NextBloom ==
    \/ \E o \in GlowingObjects : AddSceneObject(o)
    \/ \E o \in GlowingObjects : RemoveSceneObject(o)
    \/ \E enabled \in BOOLEAN : SetIsDepthSorting(enabled)
    \/ \E options \in BloomSwitches : SetBloom(options)
    \/ \E now \in lastFrameTime..MaxTime : StartWithBloom(now)
    \/ \E now \in lastFrameTime..MaxTime : TickWithBloom(now)

SpecBloom == Init /\ [][NextBloom]_vars

\* ---- the OBJ pipeline step by step

\* new WavefrontLexer(source)
LexerNew(source) == [source |-> source, tokens |-> <<>>, start |-> 0, current |-> 0]

\* fromText(text) has been called and has constructed its lexer
InitConvert ==
    /\ EngineInit
    /\ PartsInit
    /\ \/ \E n \in 0..MaxLines : \E lines \in [1..n -> LineMenu], finalNewline \in BOOLEAN :
              args = [fn |-> "fromText", structured |-> TRUE, lines |-> lines,
                      finalNewline |-> finalNewline, text |-> Render(lines, finalNewline)]
       \/ \E n \in 0..MaxLen : \E text \in [1..n -> Alphabet] :
              args = [fn |-> "fromText", structured |-> FALSE, lines |-> <<>>,
                      finalNewline |-> FALSE, text |-> text]
    /\ result = [done |-> FALSE, phase |-> "lexTokens", lexer |-> LexerNew(args.text),
                 parser |-> ParserNew(<<>>)]

\* one step of the conversion: it is recorded as the latest operation and
\* leaves the conversion as res
ConvertStep(ev, res) ==
    /\ events' = <<ev>>
    /\ result' = res
    /\ UNCHANGED <<scene, camera, isRunning, lastFrameTime, isDepthSorting, onFrameUpdate,
                   pending, allFaces, visited, returned, everRemoved, hasStepped, args,
                   partVars>>

\* one iteration of the loop of lexTokens: start = current, then lexToken()
LexToken ==
    /\ ~result.done
    /\ result.phase = "lexTokens"
    /\ ~lexerIsAtEnd(result.lexer.source, result.lexer.current)
    /\ LET r == lexToken(result.lexer.source, result.lexer.current)
       IN ConvertStep([op |-> "lexToken", start |-> result.lexer.current],
                      [result EXCEPT !.lexer.start = result.lexer.current,
                                     !.lexer.current = r.current,
                                     !.lexer.tokens = @ \o r.tokens])

\* the loop of lexTokens ends: EOF is pushed, the tokens are returned and
\* handed to a new parser
LexTokensReturns ==
    /\ ~result.done
    /\ result.phase = "lexTokens"
    /\ lexerIsAtEnd(result.lexer.source, result.lexer.current)
    /\ LET tokens == Append(result.lexer.tokens, EOFToken)
       IN ConvertStep([op |-> "lexTokens"],
                      [result EXCEPT !.phase = "parse", !.lexer.tokens = tokens,
                                     !.parser = ParserNew(tokens)])

\* one iteration of the loop of parse: #parseStatement()
ParseStatement ==
    /\ ~result.done
    /\ result.phase = "parse"
    /\ ~result.parser.threw
    /\ ~parserIsAtEnd(result.parser)
    /\ ConvertStep([op |-> "parseStatement", start |-> result.parser.current],
                   [result EXCEPT !.parser = parseStatement(result.parser)])

\* the loop of parse ends (or a statement threw): fromText returns its Mesh
\* (or throws)
FromTextReturns ==
    /\ ~result.done
    /\ result.phase = "parse"
    /\ result.parser.threw \/ parserIsAtEnd(result.parser)
    /\ ConvertStep([op |-> "fromText"],
                   [result EXCEPT !.done = TRUE, !.phase = "returned"])

NextConvert ==
    \/ LexToken
    \/ LexTokensReturns
    \/ ParseStatement
    \/ FromTextReturns

\* fromText runs to its end once called: JavaScript runs a call to
\* completion. A step of NextConvert is possible exactly while the call has
\* not returned, which states the weak fairness of the loops' steps; the
\* return is weakly fair.
SpecConvert ==
    /\ InitConvert
    /\ [][NextConvert]_vars
    /\ WF_vars(FromTextReturns)
    /\ ([]<>result.done \/ []<><<NextConvert>>_vars)

\* ------------------------------------------------------------------ reading the events

\* the places of the events of an operation
Places(evs, ops) == {i \in 1..Len(evs) : evs[i].op \in ops}

\* the renderer's drawing calls for a face
FaceOps == {"fillFace", "renderEdgeWithColor", "renderEdgeGradient"}

\* what a frame callback is seen to do
CallbackCallOps == {"addSceneObject", "removeSceneObject", "stop"}

\* the latest operation was an executed frame step
FrameExecuted(evs) == Places(evs, {"clear"}) # {}

\* the latest operation was the single Scene call op
IsCall(evs, op) == Len(evs) = 1 /\ evs[1].op = op

\* the elements of a list
Range(arr) == {arr[i] : i \in 1..Len(arr)}

\* camera-space Z of the vertices of face k of object o
FaceCameraZ(cam, o, k) ==
    LET face == Mesh(o).faceIndices[k]
    IN [i \in 1..Len(face) |-> Mesh(o).vertices[face[i] + 1][3] + Position(o)[3] - cam.position[3]]

\* face f is strictly farther from the camera than face g
Farther(f, g) == f.depth.num * g.depth.den > g.depth.num * f.depth.den

\* ------------------------------------------------------------------ the frame loop

\* how a frame step is entered
EntryOps == {"start", "tick"}

\* the latest operation was a host tick that found the engine stopped: a tick
\* never sets the flag, and this one's callback did not clear it
StoppedTick ==
    /\ events # <<>>
    /\ events[1].op = "tick"
    /\ ~isRunning
    /\ \A i \in 2..Len(events) : events[i].op # "stop"

\* a frame step whose callback calls stop() still clears, draws every face of
\* the scene and ends by scheduling the next tick
StopInsideFrameCompletes ==
    \A i \in Places(events, {"stop"}) :
        i > 1 =>
            /\ ~isRunning
            /\ \E c \in Places(events, {"clear"}) :
                   /\ i < c
                   /\ SubSeq(events, c + 1, Len(events) - 1)
                          = renderFacesFrom(allFaces, 1, isDepthSorting)
                   /\ events[Len(events)].op = "requestAnimationFrame"
            /\ Len(allFaces) = Len(collectFaces(camera, scene.sceneObjects, 1))

\* C1: once stop() has been called and start() is not called again, no later
\* host animation tick invokes the frame callback or draws anything; a frame
\* step in progress when stop() is called (stop() called from inside the
\* frame callback) still runs its clear and draw to completion.
C1_StopIsCooperative ==
    /\ StoppedTick => (Len(events) = 1 /\ allFaces = <<>> /\ visited = <<>>)
    /\ StopInsideFrameCompletes

\* a frame step with a callback set was stopped from inside the callback and
\* has drawn faces; the engine is stopped with that step's tick still pending
C1_WitnessStopInsideFrame ==
    /\ ~isRunning
    /\ pending > 0
    /\ \E i \in Places(events, {"stop"}) : i > 1
    /\ Places(events, FaceOps) # {}

\* the tick left pending by a stopped engine has run, with a callback set and
\* objects in the scene, and nothing was invoked or drawn
C1_Witness ==
    /\ StoppedTick
    /\ onFrameUpdate
    /\ pending = 0
    /\ scene.sceneObjects # <<>>

\* C2: the frame callback is invoked exactly once per executed frame step with
\* a delta-time that is >= 0, and on the first frame step (no previous tick
\* timestamp) the delta-time passed is exactly 0.
C2_CallbackOncePerStep ==
    [][(onFrameUpdate /\ FrameExecuted(events'))
        => /\ Cardinality(Places(events', {"onFrameUpdate"})) = 1
           /\ \A i \in Places(events', {"onFrameUpdate"}) :
                  /\ events'[i].deltaTime >= 0
                  /\ ~hasStepped => events'[i].deltaTime = 0]_vars

\* the callback has been invoked with a positive delta-time, so on a step
\* that was not the first
C2_Witness ==
    /\ hasStepped
    /\ \E i \in Places(events, {"onFrameUpdate"}) : events[i].deltaTime > 0

\* C3: within every executed frame step the order is: invoke the frame
\* callback, clear the surface, draw all faces, schedule the next tick; so an
\* object the callback adds is drawn in that same step and one it removes is
\* not.
C3_FrameStepOrder ==
    FrameExecuted(events) =>
        LET n == Len(events)
            c == CHOOSE i \in Places(events, {"clear"}) : TRUE
        IN /\ Cardinality(Places(events, {"clear"})) = 1
           /\ Places(events, {"requestAnimationFrame"}) = {n}
           /\ events[1].op \in EntryOps
           /\ \A i \in 2..(c - 1) : events[i].op \in CallbackCallOps \cup {"onFrameUpdate"}
           /\ \A i \in Places(events, {"onFrameUpdate"}) : i = 2
           /\ \A i \in (c + 1)..(n - 1) : events[i].op \in FaceOps
           /\ \A i \in Places(events, {"addSceneObject"}) :
                  /\ events[i].obj \in Range(visited)
                  /\ \E j \in Places(events, FaceOps) : events[j].obj = events[i].obj
           /\ \A i \in Places(events, {"removeSceneObject"}) :
                  /\ events[i].obj \notin Range(visited)
                  /\ \A j \in Places(events, FaceOps) : events[j].obj # events[i].obj

\* a frame step whose callback added an object to a scene that already held
\* one, and that drew faces of the new object
C3_Witness ==
    /\ Len(scene.sceneObjects) >= 2
    /\ \E i \in Places(events, {"addSceneObject"}) :
           \E j \in Places(events, FaceOps) : i < j /\ events[j].obj = events[i].obj

\* ------------------------------------------------------------------ the Scene

\* C4: the first successful add returns id 1, every successful add returns an
\* id strictly greater than every id returned before it, and an id freed by a
\* removal is never returned again, also when the same object is removed and
\* added again.
C4_IdsIncreaseNeverReused ==
    /\ returned # <<>> => returned[1] = 1
    /\ \A i, j \in 1..Len(returned) : i < j => returned[i] < returned[j]
    /\ \A i \in 1..Len(returned) :
           returned[i] \notin DOMAIN scene.idToObject
               => \A j \in (i + 1)..Len(returned) : returned[j] # returned[i]

\* the same object has been added, removed and added again, and holds a new id
C4_Witness ==
    \E o \in everRemoved :
        /\ MapHas(scene.objectToId, o)
        /\ scene.objectToId[o] = returned[Len(returned)]
        /\ \E i \in 1..(Len(returned) - 1) : returned[i] \notin DOMAIN scene.idToObject

\* C5: addSceneObject with an object that is currently registered raises an
\* error and leaves the Scene as it was: same object list, same id mappings,
\* and the next id is not consumed.
C5_DuplicateAddRaisesAndKeepsScene ==
    [][\A o \in Objects :
          (IsCall(events', "addSceneObject") /\ events'[1].obj = o
              /\ MapHas(scene.objectToId, o))
          => /\ events'[1].threw
             /\ scene'.sceneObjects = scene.sceneObjects
             /\ scene'.idToObject = scene.idToObject
             /\ scene'.objectToId = scene.objectToId
             /\ scene'.nextId = scene.nextId
             /\ returned' = returned]_vars

\* a duplicate add has raised in a scene of two objects
C5_Witness ==
    /\ IsCall(events, "addSceneObject")
    /\ events[1].threw
    /\ MapHas(scene.objectToId, events[1].obj)
    /\ Len(scene.sceneObjects) = 2

\* C6: removeSceneObject with an object that is not currently registered
\* (never added, or already removed) does not raise and leaves the object
\* list, both id mappings and the next id unchanged.
C6_RemoveAbsentIsNoOp ==
    [][\A o \in Objects :
          (IsCall(events', "removeSceneObject") /\ events'[1].obj = o
              /\ ~MapHas(scene.objectToId, o))
          => /\ ~events'[1].threw
             /\ scene'.sceneObjects = scene.sceneObjects
             /\ scene'.idToObject = scene.idToObject
             /\ scene'.objectToId = scene.objectToId
             /\ scene'.nextId = scene.nextId]_vars

\* an object that was never added (it is not registered and was never taken
\* out) has been removed from a scene that holds other objects
C6_Witness ==
    /\ IsCall(events, "removeSceneObject")
    /\ events[1].obj \notin everRemoved
    /\ events[1].obj \notin DOMAIN scene.objectToId
    /\ ~events[1].threw
    /\ Len(scene.sceneObjects) = 2

\* the object registered under id, Undefined when there is none
RegisteredUnder(sc, id) ==
    IF \E o \in DOMAIN sc.objectToId : sc.objectToId[o] = id
    THEN CHOOSE o \in DOMAIN sc.objectToId : sc.objectToId[o] = id
    ELSE Undefined

\* C7: the id-to-object and object-to-id mappings are mutually inverse and the
\* object list holds exactly the mapped objects, each once; getSceneObjectById
\* returns the object registered under the id, and the not-found value for an
\* id never assigned or whose object was removed.
C7_MapsInverseAndLookup ==
    /\ \A id \in DOMAIN scene.idToObject :
           /\ scene.idToObject[id] \in DOMAIN scene.objectToId
           /\ scene.objectToId[scene.idToObject[id]] = id
    /\ \A o \in DOMAIN scene.objectToId :
           /\ scene.objectToId[o] \in DOMAIN scene.idToObject
           /\ scene.idToObject[scene.objectToId[o]] = o
    /\ Range(scene.sceneObjects) = DOMAIN scene.objectToId
    /\ Len(scene.sceneObjects) = Cardinality(DOMAIN scene.objectToId)
    /\ \A id \in 0..(MaxId + 1) :
           getSceneObjectById(scene, id) = RegisteredUnder(scene, id)
    /\ IsCall(events, "getSceneObjectById")
           => events[1].ret = RegisteredUnder(scene, events[1].id)

\* the id of a removed object has been looked up and was not found, while
\* another object is registered
C7_Witness ==
    /\ IsCall(events, "getSceneObjectById")
    /\ events[1].ret = Undefined
    /\ \E i \in 1..Len(returned) : returned[i] = events[1].id
    /\ scene.sceneObjects # <<>>

\* ------------------------------------------------------------------ rendering

\* C8: each frame visits the registered objects in the order in which they
\* were added, which is ascending id order: removing an object does not
\* change the relative order of the others, and an object removed and added
\* again is visited last.
C8_VisitInInsertionOrder ==
    /\ [](/\ \A i, j \in 1..Len(scene.sceneObjects) :
                i < j => scene.objectToId[scene.sceneObjects[i]]
                             < scene.objectToId[scene.sceneObjects[j]]
          /\ FrameExecuted(events) => visited = scene.sceneObjects)
    /\ [][\A o \in Objects :
             (IsCall(events', "removeSceneObject") /\ events'[1].obj = o)
             => scene'.sceneObjects = SelectSeq(scene.sceneObjects, LAMBDA x : x # o)]_vars

\* a frame has visited two objects, the second of which had been removed and
\* added again after the first was added
C8_Witness ==
    /\ FrameExecuted(events)
    /\ Len(visited) = 2
    /\ visited[2] \in everRemoved
    /\ scene.objectToId[visited[1]] = 2
    /\ scene.objectToId[visited[2]] = 3

\* which face of which object a ProjectedFace or a drawing call is of
FaceId(x) == <<x.obj, x.face>>

\* C9: with depth sorting enabled, the faces of a frame, collected across all
\* scene objects, are drawn in strictly descending depth order whenever their
\* depths are distinct, whatever object a face belongs to and whatever the
\* order in which the objects were added.
C9_DrawnFarthestFirst ==
    (FrameExecuted(events) /\ isDepthSorting) =>
        LET fills == SelectSeq(events, LAMBDA e : e.op = "fillFace")
            collected == collectFaces(camera, scene.sceneObjects, 1)
        IN /\ Len(allFaces) = Len(collected)
           /\ {FaceId(allFaces[i]) : i \in 1..Len(allFaces)}
                  = {FaceId(collected[i]) : i \in 1..Len(collected)}
           /\ Len(fills) = Len(allFaces)
           /\ \A i \in 1..Len(fills) : FaceId(fills[i]) = FaceId(allFaces[i])
           /\ \A i, j \in 1..Len(allFaces) :
                  (i < j /\ (Farther(allFaces[i], allFaces[j])
                             \/ Farther(allFaces[j], allFaces[i])))
                  => Farther(allFaces[i], allFaces[j])

\* a sorted frame in which an object added later is drawn between the faces
\* of an object added first, and a face of fractional depth is placed
C9_Witness ==
    /\ FrameExecuted(events)
    /\ isDepthSorting
    /\ Len(visited) = 3
    /\ visited[1] = "a"
    /\ Len(allFaces) = 5
    /\ allFaces[1].obj = "a"
    /\ allFaces[2].obj # "a"
    /\ allFaces[5].obj = "a"
    /\ \E i \in 1..Len(allFaces) : allFaces[i].depth.num = 10 /\ allFaces[i].depth.den = 3

\* C10: projection emits a face only if every one of its vertices has
\* camera-space Z greater than the near-plane epsilon; if any vertex has
\* Z <= epsilon the whole face is omitted (no face with fewer screen positions
\* than vertices is emitted), and the other faces of the object are unaffected.
C10_NearPlaneRejectsWholeFace ==
    FrameExecuted(events) =>
        /\ \A i \in 1..Len(allFaces) :
               LET z == FaceCameraZ(camera, allFaces[i].obj, allFaces[i].face)
               IN /\ \A v \in 1..Len(z) : z[v] > near
                  /\ Len(allFaces[i].screenPositions) = Len(z)
        /\ \A o \in Range(visited) : \A k \in 1..Len(Mesh(o).faceIndices) :
               LET z == FaceCameraZ(camera, o, k)
                   faceVertices == [v \in 1..Len(z) |->
                                       getTransformedVertices(o)[Mesh(o).faceIndices[k][v] + 1]]
                   culled == camera.isBackFaceCulling /\ _isBackFacing(camera, faceVertices)
               IN ((\A v \in 1..Len(z) : z[v] > near) /\ ~culled)
                      => \E i \in 1..Len(allFaces) : FaceId(allFaces[i]) = <<o, k>>
        /\ \A i \in Places(events, FaceOps) :
               \E j \in 1..Len(allFaces) : FaceId(allFaces[j]) = FaceId(events[i])

\* a frame drew one face of an object and omitted another face of it that has
\* a vertex exactly on the near plane behind two vertices in front of it
C10_Witness ==
    /\ FrameExecuted(events)
    /\ \E o \in Range(visited) : \E k1, k2 \in 1..Len(Mesh(o).faceIndices) :
           LET z == FaceCameraZ(camera, o, k2)
           IN /\ \E i \in 1..Len(allFaces) : FaceId(allFaces[i]) = <<o, k1>>
              /\ \A i \in 1..Len(allFaces) : FaceId(allFaces[i]) # <<o, k2>>
              /\ z[1] > near /\ z[2] > near /\ z[3] = near
              /\ ~camera.isBackFaceCulling

\* ---- C11

\* (v1 - v0) x (v2 - v0) . v0 of a triangle given in camera space, coordinate
\* by coordinate
NormalDotV0(v0, v1, v2) ==
    LET ax == v1[1] - v0[1]
        ay == v1[2] - v0[2]
        az == v1[3] - v0[3]
        bx == v2[1] - v0[1]
        by == v2[2] - v0[2]
        bz == v2[3] - v0[3]
    IN (ay * bz - az * by) * v0[1] + (az * bx - ax * bz) * v0[2] + (ax * by - ay * bx) * v0[3]

\* the triangle of the call in camera space
CameraSpaceTriangle ==
    [i \in 1..3 |-> <<args.faceVertices[i][1] - args.cam.position[1],
                       args.faceVertices[i][2] - args.cam.position[2],
                       args.faceVertices[i][3] - args.cam.position[3]>>]

\* C11: a triangle v0, v1, v2 in camera space with n = (v1 - v0) x (v2 - v0)
\* and n . v0 # 0 is classified back-facing exactly when n . v0 > 0, and the
\* same triangle with reversed winding (v0, v2, v1) is classified the
\* opposite way.
C11_BackFacingBySignAndWinding ==
    (args.fn = "_isBackFacing" /\ result.done) =>
        LET t == CameraSpaceTriangle
            d == NormalDotV0(t[1], t[2], t[3])
            v == args.faceVertices
        IN d # 0 =>
               /\ result.ret = (d > 0)
               /\ _isBackFacing(args.cam, <<v[1], v[3], v[2]>>) = ~result.ret

\* a triangle whose normal points away from the camera has been classified
\* back-facing, by a camera that is not at the origin
C11_Witness ==
    /\ args.fn = "_isBackFacing"
    /\ result.done
    /\ result.ret
    /\ args.cam.position # <<0, 0, 0>>
    /\ NormalDotV0(CameraSpaceTriangle[1], CameraSpaceTriangle[2], CameraSpaceTriangle[3]) > 0

\* ---- C12

\* a colour as a ProjectedFace carries it, a property that is absent counting
\* as null
Carried(face, key) == IF Truthy(Get(face, key)) THEN Get(face, key) ELSE Null

\* the fillFace calls of the latest frame step for a face
FillCalls(f) ==
    {i \in Places(events, {"fillFace"}) : events[i].obj = f.obj /\ events[i].face = f.face}

\* C12: every ProjectedFace emitted for a face of a SceneObject carries all
\* three colours of that object's material (edge, gradient and face colour),
\* and the draw step reads exactly those three values from the ProjectedFace:
\* a face whose material has a face colour is filled with it.
C12_FaceCarriesMaterialColors ==
    \A n \in 1..Len(allFaces) :
        LET f == allFaces[n]
        IN /\ Carried(f, "color") = Material(f.obj).edgeColor
           /\ Carried(f, "gradientColor") = Material(f.obj).edgeGradientColor
           /\ Carried(f, "faceColor") = Material(f.obj).faceColor
           /\ Material(f.obj).faceColor # Null =>
                  \A i \in FillCalls(f) : events[i].color = Material(f.obj).faceColor

\* ---- C13

\* the lines of a list that are of one of the kinds, in order
RECURSIVE SelectLines(_, _)
SelectLines(lines, kinds) ==
    IF lines = <<>> THEN <<>>
    ELSE (IF Head(lines).kind \in kinds THEN <<Head(lines)>> ELSE <<>>)
         \o SelectLines(Tail(lines), kinds)

\* the f lines of a list with at least MinFaceIndices index groups, in order
RECURSIVE LongFaces(_)
LongFaces(lines) ==
    IF lines = <<>> THEN <<>>
    ELSE (IF Head(lines).kind = "f" /\ Len(Head(lines).groups) >= 3
          THEN <<Head(lines)>> ELSE <<>>)
         \o LongFaces(Tail(lines))

\* the vertex a v line stands for: its numbers, 0 for each one missing
VertexOf(line) ==
    [i \in 1..3 |-> IF i <= Len(line.nums) THEN line.nums[i].value ELSE [num |-> 0, den |-> 1]]

\* the face an f line stands for: the leading integer of each group, minus 1
FaceOf(line) ==
    [k \in 1..Len(line.groups) |->
        [num |-> line.groups[k].index.value.num - 1, den |-> 1]]

\* the vertices the v lines of a text stand for, in file order
VerticesOf(lines) ==
    LET vs == SelectLines(lines, {"v"}) IN [i \in 1..Len(vs) |-> VertexOf(vs[i])]

\* the faces the f lines of a text with three or more groups stand for, in file order
FacesOf(lines) ==
    LET fs == LongFaces(lines) IN [i \in 1..Len(fs) |-> FaceOf(fs[i])]

\* the text of the call is made of whole lines and has been converted
ConvertedLines == args.fn = "fromText" /\ args.structured /\ result.done

\* every v line of the text has its three numbers
WellFormed == \A i \in 1..Len(args.lines) :
                  args.lines[i].kind = "v" => Len(args.lines[i].nums) = 3

\* C13: for OBJ text made of well-formed v and f lines, fromText returns a
\* mesh with one vertex per v line in file order and, for each f line with at
\* least 3 index groups, one face in file order whose k-th index is the
\* leading integer of the k-th group minus 1 (what follows a slash is
\* discarded).
C13_MeshFromWellFormedText ==
    (ConvertedLines /\ WellFormed) =>
        /\ ~result.ret.threw
        /\ result.ret.vertices = VerticesOf(args.lines)
        /\ result.ret.faceIndices = FacesOf(args.lines)

\* a text with a vertex line and then a face line with texture and normal
\* indices has been converted into a mesh with a vertex and a face
C13_Witness ==
    /\ ConvertedLines
    /\ WellFormed
    /\ Len(args.lines) = 2
    /\ args.lines[1].kind = "v"
    /\ args.lines[2].kind = "f"
    /\ Len(args.lines[2].groups) >= 3
    /\ args.lines[2].groups[1].extra = <<"/", "2", "/", "3">>
    /\ Len(result.ret.vertices) = 1
    /\ Len(result.ret.faceIndices) = 1

\* ---- C14

\* the lines of a text without its f lines of fewer than three groups
RECURSIVE WithoutShortFaces(_)
WithoutShortFaces(lines) ==
    IF lines = <<>> THEN <<>>
    ELSE (IF Head(lines).kind = "f" /\ Len(Head(lines).groups) < 3
          THEN <<>> ELSE <<Head(lines)>>)
         \o WithoutShortFaces(Tail(lines))

\* C14: an f line contributes a face to the mesh if and only if it
\* accumulated 3 or more vertex indices; an f line with 0, 1 or 2 indices
\* contributes nothing, raises no error, and does not affect how the
\* following lines are parsed: the mesh is that of the text with the short f
\* lines left out.
C14_ShortFacesDropped ==
    ConvertedLines =>
        /\ ~result.ret.threw
        /\ Len(result.ret.faceIndices) = Len(LongFaces(args.lines))
        /\ \A i \in 1..Len(result.ret.faceIndices) :
               Len(result.ret.faceIndices[i]) = Len(LongFaces(args.lines)[i].groups)
        /\ result.ret.vertices = fromText(Render(WithoutShortFaces(args.lines), TRUE)).vertices
        /\ result.ret.faceIndices
               = fromText(Render(WithoutShortFaces(args.lines), TRUE)).faceIndices

\* a text with a face line of two indices and then a line that adds to the
\* mesh has been converted
C14_Witness ==
    /\ ConvertedLines
    /\ Len(args.lines) = 2
    /\ args.lines[1].kind = "f"
    /\ Len(args.lines[1].groups) = 2
    /\ Len(result.ret.vertices) + Len(result.ret.faceIndices) = 1

\* ---- C15

\* C15: a v line with fewer than three numeric tokens still appends exactly
\* one vertex, with every missing component equal to 0, and parsing does not
\* throw for any input text.
C15_MissingNumbersAreZero ==
    /\ (args.fn = "fromText" /\ result.done) => ~result.ret.threw
    /\ ConvertedLines => result.ret.vertices = VerticesOf(args.lines)

\* a text whose first line is a v line with one number, followed by another
\* line, has been converted
C15_Witness ==
    /\ ConvertedLines
    /\ Len(args.lines) = 2
    /\ args.lines[1].kind = "v"
    /\ Len(args.lines[1].nums) = 1
    /\ args.lines[2].kind = "v"
    /\ result.ret.vertices[1][2] = [num |-> 0, den |-> 1]

\* ---- C16

\* C16: for every input string, the token list produced by the lexer
\* contains exactly one EOF token and that token is the last element of the
\* list.
C16_OneEOFLast ==
    (args.fn = "fromText" /\ result.done) =>
        /\ result.tokens # <<>>
        /\ \A i \in 1..Len(result.tokens) :
               result.tokens[i].type = "EOF" <=> i = Len(result.tokens)

\* a text that ends inside a comment, with tokens before it, has been lexed
C16_Witness ==
    /\ args.fn = "fromText"
    /\ result.done
    /\ Len(result.tokens) >= 3
    /\ args.text[Len(args.text)] # "\n"
    /\ \E i \in 1..Len(args.text) : args.text[i] = "#"

\* ---- C17

\* C17: for all depth and all near < far, calculateFogAmount(depth, near, far)
\* returns 0 when depth <= near, 1 when depth >= far, and
\* (depth - near) / (far - near), a value strictly between 0 and 1, when
\* near < depth < far.
C17_FogAmountClampedLinear ==
    (args.fn = "calculateFogAmount" /\ result.done /\ args.near < args.far) =>
        LET r == result.ret
        IN /\ r.den > 0
           /\ args.depth <= args.near => r.num = 0
           /\ args.depth >= args.far => r.num = r.den
           /\ (args.near < args.depth /\ args.depth < args.far) =>
                  /\ r.num * (args.far - args.near) = (args.depth - args.near) * r.den
                  /\ 0 < r.num
                  /\ r.num < r.den

\* the amount of a depth well inside the fog range has been calculated
C17_Witness ==
    /\ args.fn = "calculateFogAmount"
    /\ result.done
    /\ args.near + 1 < args.depth
    /\ args.depth + 1 < args.far
    /\ result.ret.num > 0

\* ---- C18

\* after holds the fields of options with their values, and every other field
\* of before with the value it had
OnlyFieldsPresentChanged(before, after, options) ==
    /\ DOMAIN after = DOMAIN before \cup DOMAIN options
    /\ \A k \in DOMAIN after :
           after[k] = IF k \in DOMAIN options THEN options[k] ELSE before[k]

\* C18: in any sequence of assignments starting from the defaults, assigning a
\* depth-fog or bloom configuration that holds only some of the fields changes
\* exactly the fields it holds and leaves every other field, and the other
\* setting, at its prior value.
C18_PartialUpdateKeepsOtherFields ==
    [][/\ args'.fn = "set depthFog" =>
              /\ OnlyFieldsPresentChanged(depthFog, depthFog', args'.options)
              /\ bloom' = bloom
       /\ args'.fn = "set bloom" =>
              /\ OnlyFieldsPresentChanged(bloom, bloom', args'.options)
              /\ depthFog' = depthFog]_vars

\* a configuration holding only near has been assigned after far and the bloom
\* blur had been changed: far and blur keep their changed values, the fields
\* never assigned keep their defaults
C18_Witness ==
    /\ args.fn = "set depthFog"
    /\ DOMAIN args.options = {"near"}
    /\ depthFog.near = 1
    /\ depthFog.far = 10
    /\ depthFog.enabled = DepthFogDefault.enabled
    /\ depthFog.color = DepthFogDefault.color
    /\ bloom = [BloomDefault EXCEPT !.blur = 15]

\* ---- C19

\* the three values a Material retains from its construction
Originals(mat) == <<mat.originalColor, mat.originalGradientColor, mat.originalFaceColor>>

\* C19: a new Material holds the values supplied at construction both as
\* current and as original values; in any sequence of set and reset calls the
\* originals never change, and resetting one channel gives it its original
\* value and leaves the current values of the other two channels as they were.
C19_ResetRestoresOneChannel ==
    /\ <<material.color, material.gradientColor, material.faceColor>> = Originals(material)
    /\ [][/\ Originals(material') = Originals(material)
          /\ args'.fn = "resetColor" =>
                 /\ material'.color = material.originalColor
                 /\ material'.gradientColor = material.gradientColor
                 /\ material'.faceColor = material.faceColor
          /\ args'.fn = "resetGradientColor" =>
                 /\ material'.gradientColor = material.originalGradientColor
                 /\ material'.color = material.color
                 /\ material'.faceColor = material.faceColor
          /\ args'.fn = "resetFaceColor" =>
                 /\ material'.faceColor = material.originalFaceColor
                 /\ material'.color = material.color
                 /\ material'.gradientColor = material.gradientColor]_vars

\* the gradient color has been reset to its original while the edge and the
\* face color hold values set after construction
C19_Witness ==
    /\ args.fn = "resetGradientColor"
    /\ material.gradientColor = material.originalGradientColor
    /\ material.color # material.originalColor
    /\ material.faceColor # material.originalFaceColor

\* ---- C20

\* the Transform t with the angles r added to its rotation, component by
\* component, and nothing else changed
WithAnglesAdded(t, r) ==
    [t EXCEPT !.rotation = <<t.rotation[1] + r[1], t.rotation[2] + r[2], t.rotation[3] + r[3]>>]

\* C20: transform.rotate(r) leaves the Transform with rotation = old rotation
\* + r, component by component, and with its position and scale unchanged;
\* rotateX, rotateY and rotateZ add their angle to their own component of the
\* rotation only.
C20_RotateAddsAngles ==
    [][/\ args'.fn = "rotate" => transform' = WithAnglesAdded(transform, args'.rotation)
       /\ args'.fn = "rotateX" => transform' = WithAnglesAdded(transform, <<args'.angle, 0, 0>>)
       /\ args'.fn = "rotateY" => transform' = WithAnglesAdded(transform, <<0, args'.angle, 0>>)
       /\ args'.fn = "rotateZ" => transform' = WithAnglesAdded(transform, <<0, 0, args'.angle>>)]_vars

\* ---- C21

\* C21: the camera of an engine culls back faces without any call that sets
\* the flag: in the frame loop, whose operations never assign
\* camera.isBackFaceCulling, the flag is on in every state, the state right
\* after construction included.
C21_CullingOnByDefault == camera.isBackFaceCulling = TRUE

\* ---- C22

\* C22: however start(), stop() and the host's animation ticks interleave, at
\* most one next-tick callback is pending at any time.
C22_AtMostOnePendingTick == pending <= 1

\* ---- C23

\* C23: when start() is called on an engine that has executed frame steps and
\* was stopped, the frame step start() executes passes delta-time 0 to the
\* frame callback: the time spent stopped is not reported as a frame delta.
C23_RestartPassesZeroDelta ==
    [][(~isRunning /\ hasStepped /\ onFrameUpdate /\ events' # <<>> /\ events'[1].op = "start")
        => \A i \in Places(events', {"onFrameUpdate"}) : events'[i].deltaTime = 0]_vars

\* ---- C24

\* C24: every mesh fromText returns, for every input text, has in each of its
\* faces only indices that are integers i with 0 <= i < the number of
\* vertices of the mesh.
C24_FaceIndicesWithinVertices ==
    (args.fn = "fromText" /\ result.done /\ ~result.ret.threw) =>
        \A k \in 1..Len(result.ret.faceIndices) :
            \A j \in 1..Len(result.ret.faceIndices[k]) :
                LET index == result.ret.faceIndices[k][j]
                IN /\ index.den = 1
                   /\ 0 <= index.num
                   /\ index.num < Len(result.ret.vertices)

\* ---- C25

\* the lines of a text: what stands between its newlines
RECURSIVE SplitLines(_, _)
SplitLines(text, line) ==
    IF text = <<>> THEN <<line>>
    ELSE IF Head(text) = "\n" THEN <<line>> \o SplitLines(Tail(text), <<>>)
    ELSE SplitLines(Tail(text), Append(line, Head(text)))

\* whether the first token of a line is the keyword v or the keyword f
StartsWithVOrF(line) ==
    LET first == lexTokens(line)[1]
    IN first.type = "KEYWORD" /\ first.value \in {<<"v">>, <<"f">>}

\* a text with every line that does not start with v or f emptied
RECURSIVE OnlyVAndFLines(_)
OnlyVAndFLines(lines) ==
    IF lines = <<>> THEN <<>>
    ELSE (IF StartsWithVOrF(Head(lines)) THEN Head(lines) ELSE <<>>)
         \o (IF Len(lines) > 1 THEN <<"\n">> \o OnlyVAndFLines(Tail(lines)) ELSE <<>>)

\* C25: only a line whose first token is the keyword v or f contributes to the
\* mesh: the mesh of a text is the mesh of the same text with every other
\* line (one starting with an unknown keyword, a number or a slash) emptied,
\* even if v or f appears later on such a line.
C25_OnlyVAndFLinesContribute ==
    (args.fn = "fromText" /\ result.done) =>
        result.ret = fromText(OnlyVAndFLines(SplitLines(args.text, <<>>)))

\* ---- C26

\* C26: the collection obtained from a Scene is a snapshot: a loop over it
\* that removes each object it visits visits every object that was registered
\* when the collection was obtained, in order, and leaves the Scene empty.
C26_CollectionIsSnapshot ==
    (events # <<>> /\ events[1].op = "clearSceneObjects") =>
        /\ events[1].seen = events[1].registered
        /\ scene.sceneObjects = <<>>
        /\ DOMAIN scene.idToObject = {}
        /\ DOMAIN scene.objectToId = {}

\* ---- C27

\* the places of the drawing calls of the latest frame step for a face
DrawCalls(f) ==
    {i \in Places(events, FaceOps) : events[i].obj = f.obj /\ events[i].face = f.face}

\* C27: in a frame drawn with depth sorting enabled, every drawn face has one
\* polygon fill, issued before each of that face's edge strokes and after all
\* fills and strokes of every face earlier in the processing order; in a frame
\* drawn with depth sorting disabled no fill is issued at all.
C27_FillBeforeEdges ==
    FrameExecuted(events) =>
        IF isDepthSorting
        THEN \A n \in 1..Len(allFaces) :
                 /\ Cardinality(FillCalls(allFaces[n])) = 1
                 /\ \A p \in FillCalls(allFaces[n]) :
                        /\ \A i \in DrawCalls(allFaces[n]) \ {p} :
                               /\ events[i].op # "fillFace"
                               /\ p < i
                        /\ \A m \in 1..(n - 1) : \A i \in DrawCalls(allFaces[m]) : i < p
        ELSE Places(events, {"fillFace"}) = {}

\* a sorted frame has drawn at least two faces, each with its fill and its
\* edges
C27_Witness ==
    /\ FrameExecuted(events)
    /\ isDepthSorting
    /\ Len(allFaces) >= 2
    /\ \A n \in 1..Len(allFaces) : Cardinality(DrawCalls(allFaces[n])) >= 4

\* a frame drawn without depth sorting has stroked the edges of a face
C27_WitnessUnsorted ==
    /\ FrameExecuted(events)
    /\ ~isDepthSorting
    /\ Places(events, FaceOps) # {}

\* ---- C28

\* the calls that draw on the bloom surface
BloomDrawOps == {"fillFaceOnBloom", "renderEdgeToBloom", "renderEdgeGradientToBloom"}

\* the latest operation was a frame step that found bloom enabled
BloomFrame ==
    \E i \in Places(events, {"isBloomEnabled"}) : events[i].ret

\* C28: in every frame drawn with bloom enabled the bloom surface is cleared
\* once, before the first fill or stroke on it, and is composited onto the
\* main surface exactly once, after the last drawing call of the last face;
\* what is composited is exactly what this frame drew on the bloom surface,
\* nothing of an earlier frame.
C28_BloomClearedAndCompositedOnce ==
    BloomFrame =>
        /\ Cardinality(Places(events, {"clearBloomCanvas"})) = 1
        /\ Cardinality(Places(events, {"compositeBloom"})) = 1
        /\ \A c \in Places(events, {"clearBloomCanvas"}) :
               \A i \in Places(events, BloomDrawOps \cup FaceOps) : c < i
        /\ \A c \in Places(events, {"compositeBloom"}) :
               /\ \A i \in Places(events, BloomDrawOps \cup FaceOps) : i < c
               /\ events[c].drawn
               /\ events[c].image = SelectSeq(events, LAMBDA e : e.op \in BloomDrawOps)

\* a bloom frame has drawn faces on a bloom surface that still held the
\* drawing of an earlier bloom frame of a different scene when it began
C28_Witness ==
    /\ BloomFrame
    /\ \E c \in Places(events, {"clearBloomCanvas"}) :
           /\ events[c].discarded > 0
           /\ events[c].discarded # Len(bloomCanvas.strokes)
    /\ Places(events, BloomDrawOps) # {}

\* ---- C29

\* C29: fromText terminates for every input text: each step of the lexer's
\* loop consumes at least one character and stays within the text, each step
\* of the parser's loop consumes at least one token and stays within the
\* token list, and the call returns in the end.
C29_FromTextTerminates ==
    /\ <>result.done
    /\ [][/\ (events' # <<>> /\ events'[1].op = "lexToken") =>
                 /\ result'.lexer.current > result.lexer.current
                 /\ result'.lexer.current <= Len(args.text)
          /\ (events' # <<>> /\ events'[1].op = "parseStatement") =>
                 /\ result'.parser.current > result.parser.current
                 /\ result'.parser.current <= Len(result.parser.tokens)]_vars

\* a text of several lines has been lexed and parsed in several steps each,
\* and fromText has returned a mesh with a vertex and a face
C29_Witness ==
    /\ result.done
    /\ result.phase = "returned"
    /\ Len(result.lexer.tokens) >= 8
    /\ Len(result.parser.vertices) >= 1
    /\ Len(result.parser.faceIndices) >= 1

\* ---- C30

\* C30: for every depth, near and far, those with near >= far included,
\* calculateFogAmount returns a value within [0, 1], and where it divides the
\* divisor far - near is not zero.
C30_FogAmountWithinUnitInterval ==
    (args.fn = "calculateFogAmount" /\ result.done) =>
        LET r == result.ret
        IN /\ r.den > 0
           /\ 0 <= r.num
           /\ r.num <= r.den
           /\ args.near >= args.far => r.num \in {0, r.den}

\* the amount of a depth has been calculated with the far plane nearer than
\* the near plane and the depth between the two
C30_Witness ==
    /\ args.fn = "calculateFogAmount"
    /\ result.done
    /\ args.far < args.depth
    /\ args.depth < args.near

====
